---- MODULE Spec2Model ----
(***************************************************************************)
(* A model of the wotmud-player explorer, room entity and room store.      *)
(*                                                                         *)
(* The repository holds two generations of the code side by side:          *)
(*   "root" : main.py with room.py (the room dataset is a dict built in    *)
(*            travel_rooms and written at the end of the run), and         *)
(*            dao_room.py / mud_room.py / mud_room_map.py;                 *)
(*   "pkg"  : wotmud_player/main.py with wotmud_player/dao_room.py (the    *)
(*            DAORoom singleton, written on every add_room) and            *)
(*            wotmud_player/mud_room_map.py.                               *)
(* The variable `variant` says which generation a behaviour runs.          *)
(***************************************************************************)
EXTENDS Integers, Sequences, FiniteSets, TLC

VARIABLES
    variant,        \* "root" or "pkg": which generation of the code runs
    loc,            \* the place the live session is actually in
    roomsDoc,       \* rooms.json: [exists, rooms]
    stackDoc,       \* stack.json: [exists, ids]
    room_data,      \* travel_rooms: the in-memory room dataset (id -> record)
    path_stack,     \* travel_rooms: path_stack
    rooms_visited,  \* travel_rooms: rooms_visited
    room,           \* travel_rooms: the Room observed before the loop
    pc,             \* "idle", "loop", "ended"
    exitReason,     \* how the invocation ended
    uuidCtr,        \* number of uuid4() values drawn so far
    runs,           \* invocations started so far
    failures,       \* observations hit by a transport error so far
    ioLog,          \* files written by the current invocation, in order
    lastStep,       \* what the last loop iteration did (history)
    movesSent,      \* movement commands sent by the current invocation
    seenAt,         \* <<place, id>>: id was observed with the session at place
    lastObs,        \* the last get_current_room: which reads failed, the Room
    linkLog,        \* every link written to the dataset, and where the
                    \* session was when its movement command was sent
    resumeLog,      \* what the resume check of the current invocation saw
    docs0,          \* the two documents as the current invocation found them
    sent,           \* the commands travel_rooms has handed to send_and_read
                    \* in the current invocation, in order
    dao_rooms,      \* DAORoom._rooms
    daoDoc,         \* the rooms.json the DAORoom reads and writes
    daoCall,        \* the last DAORoom call: what was asked and what came back
    daoFirst,       \* the first record add_room was given for each id
    daoInst,        \* DAORoom._instance: "none", "ready", "broken"; "list" for
                    \* the plain collection load_rooms of main.py returns
    ent,            \* a Room / RoomMap object: its class and its exits
    entCall,        \* the last call on it: what was asked and what came back
    roomA,          \* a Room built from a look transcript and an exit listing
    roomB,          \* a second Room, built after roomA
    mpc,            \* where main() is; "free" when a caller drives the client
    failed,         \* main(): an exception is propagating
    writer,         \* MUDClient.writer: "None", "open" or "closed"
    conn,           \* the connection as the server side left it
    call,           \* the send_and_read call in progress and its output
    result,         \* how the last send_and_read call ended
    inflight,       \* send_and_read calls begun and not yet returned
    pending,        \* response chunks the server has still to send
    buffer,         \* chunks received and not yet read
    cmds,           \* send_and_read calls begun so far
    writesAfterClose, \* commands written after close()
    feat,           \* a RoomFeatures object: its input string and its dict
    featCall,       \* the last call on it: what was asked and what came back
    exits_output,   \* an exit listing handed to Room._extract_exits
    exits_parsed,   \* what _extract_exits made of it
    graph,          \* two Room objects and the Room objects their exits hold
    ser             \* the last to_dict / from_dict call and what it returned

evars == <<variant, loc, roomsDoc, stackDoc, room_data, path_stack,
           rooms_visited, room, pc, exitReason, uuidCtr, runs, failures,
           ioLog, lastStep, movesSent, seenAt, lastObs, linkLog,
           resumeLog,
           docs0, sent>>

svars == <<dao_rooms, daoDoc, daoCall, daoFirst, daoInst>>

rvars == <<ent, entCall>>

ivars == <<roomA, roomB>>

cvars == <<mpc, failed, writer, conn, call, result, inflight, pending,
           buffer, cmds, writesAfterClose>>

fvars == <<feat, featCall>>

xvars == <<exits_output, exits_parsed>>

gvars == <<graph, ser>>

ovars == <<ivars, cvars, fvars, xvars, gvars>>

vars == <<evars, svars, rvars, ovars>>

-----------------------------------------------------------------------------
(* Bounds of the model *)

MaxRuns == 3
MaxUuid == 2
MaxFailures == 1
MaxLinks == 2
MaxCmds == 4
MaxChunks == 2

(* main.py: MAX_ROOMS *)
MAX_ROOMS == 2

-----------------------------------------------------------------------------
(* The world behind the transport: places, what `look` and `exits` print   *)
(* there, and where a movement command leads.                              *)

Dirs == {"N", "S"}
Places == {"A", "B", "K", "D"}
NoPlace == "-"
PITCH_BLACK == "It is pitch black..."

LookText(p) ==
    CASE p = "A" -> "hall"
      [] p = "B" -> "shop"
      [] p = "K" -> PITCH_BLACK
      [] p = "D" -> "cell"

\* where direction d leads from place p; NoPlace when p has no such exit
ExitTo(p, d) ==
    CASE p = "A" /\ d = "N" -> "K"
      [] p = "A" /\ d = "S" -> "B"
      [] p = "B" /\ d = "S" -> "A"
      [] p = "K" /\ d = "N" -> "D"
      [] p = "K" /\ d = "S" -> "A"
      [] OTHER -> NoPlace

ExitListing(p) == {d \in Dirs : ExitTo(p, d) # NoPlace}

\* the server's answer to a movement command: the session moves if the exit
\* exists and stays where it is otherwise
MoveFrom(p, d) == IF ExitTo(p, d) # NoPlace THEN ExitTo(p, d) ELSE p

-----------------------------------------------------------------------------
(* Room identity *)

NoId == <<"none", "", 0>>
Md5(text) == <<"md5", text, 0>>
BlackId(n) == <<"black_", "", n>>
IsBlack(id) == id[1] = "black_"

\* Room._generate_id: a uuid for the pitch-black text, the md5 otherwise
GenerateId(look, n) == IF look = PITCH_BLACK THEN BlackId(n) ELSE Md5(look)

\* an observation that keeps what the server would have said when the read
\* fails
ObserveKeepsPartial(p, lookOk, exitsOk, n) ==
    [id |-> GenerateId(LookText(p), n), look |-> LookText(p),
     exits |-> ExitListing(p)]

\* get_current_room: "look", "exits", Room(look_output, exits_output);
\* send_and_read returns "" when the read fails
Observe(p, lookOk, exitsOk, n) ==
    LET look == IF lookOk THEN LookText(p) ELSE ""
        listing == IF exitsOk THEN ExitListing(p) ELSE {}
    IN [id |-> GenerateId(look, n), look |-> look, exits |-> listing]

UuidsUsed(look) == IF look = PITCH_BLACK THEN 1 ELSE 0

-----------------------------------------------------------------------------
(* The stored record of a room *)

EmptyExits == [d \in {} |-> NoId]

\* root main.py registers a record with "exits": {}; pkg registers
\* Room.to_dict(), whose exits carry every listed direction with room_id None
RoomRecord(v, r) ==
    [look |-> r.look,
     exits |-> IF v = "root" THEN EmptyExits ELSE [d \in r.exits |-> NoId]]

HasTarget(rec, d) == d \in DOMAIN rec.exits /\ rec.exits[d] # NoId

Linked(rec) == {d \in Dirs : HasTarget(rec, d)}

\* a store that overwrites the record of an id it already holds
AddRoomOverwrites(rooms, id, rec) ==
    [i \in DOMAIN rooms \cup {id} |-> IF i = id THEN rec ELSE rooms[i]]

\* DAORoom.add_room (pkg) / the inline registration of root main.py
AddRoom(rooms, id, rec) ==
    IF id \in DOMAIN rooms THEN rooms
    ELSE [i \in DOMAIN rooms \cup {id} |-> IF i = id THEN rec ELSE rooms[i]]

\* DAORoom._load_data (pkg) drops the "black_" ids; root load_rooms keeps all
LoadRooms(v, doc) ==
    IF v = "pkg"
    THEN [i \in {j \in DOMAIN doc.rooms : ~IsBlack(j)} |-> doc.rooms[i]]
    ELSE doc.rooms

EmptyRooms == [i \in {} |-> [look |-> "", exits |-> EmptyExits]]

Last(s) == s[Len(s)]
Front(s) == SubSeq(s, 1, Len(s) - 1)

-----------------------------------------------------------------------------
(* travel_rooms *)

NoRoom == [id |-> NoId, look |-> "", exits |-> {}]
NoStep == [kind |-> "none", dir |-> "-", top |-> NoId, linked |-> {},
           listed |-> {}, seen |-> NoId, prev |-> "none", from |-> NoPlace]

\* str.lower() of an exit key
Lower(d) ==
    CASE d = "N" -> "n"
      [] d = "S" -> "s"
      [] OTHER -> d

\* a movement command sent as the exit key is stored
MoveCommandAsStored(d) == d

\* travel_rooms: client.send_and_read(chosen_exit.lower())
MoveCommand(d) == Lower(d)

\* get_current_room: send_and_read("look"), then send_and_read("exits")
GetCurrentRoomCommands == <<"look", "exits">>
NoResume == [persisted |-> <<>>, observed |-> NoId, entering |-> <<>>]
NoObs == [made |-> FALSE, lookOk |-> TRUE, exitsOk |-> TRUE, room |-> NoRoom]

\* the exits the loop treats as untraversed at the record `cur`
\*   root: [exit for exit in room.exits if exit not in exits]
\*   pkg:  [exit for exit in room.exits if exit]
Untraversed(v, r, cur) ==
    IF v = "root" THEN {d \in r.exits : d \notin DOMAIN cur.exits}
    ELSE {d \in r.exits : d # ""}

\* a resume check that compares with the first id of the stack
ResumeStackComparesFirst(stack, id) ==
    IF stack # <<>> /\ id # stack[1] THEN <<>> ELSE stack

\* the resume check: a non-empty stack whose last id is not the observed one
\* is reset
ResumeStack(stack, id) ==
    IF stack # <<>> /\ id # Last(stack) THEN <<>> ELSE stack

\* root: room_data[current_room_id]["exits"][chosen_exit] = new_room.id
\* pkg:  "Map the exit to the new room's ID TODO" - nothing is recorded
RecordLink(v, rooms, top, d, target) ==
    IF v = "root"
    THEN [rooms EXCEPT ![top].exits =
            [e \in DOMAIN rooms[top].exits \cup {d} |->
                IF e = d THEN target ELSE rooms[top].exits[e]]]
    ELSE rooms

\* the links that `after` holds and `before` does not: <<id, direction, target>>
NewLinks(before, after) ==
    {<<x[1], x[2], after[x[1]].exits[x[2]]>> : x \in
        {x \in (DOMAIN after) \X Dirs :
            /\ HasTarget(after[x[1]], x[2])
            /\ \/ x[1] \notin DOMAIN before
               \/ ~HasTarget(before[x[1]], x[2])
               \/ before[x[1]].exits[x[2]] # after[x[1]].exits[x[2]]}}

\* a registration that saves the document in either generation
DocAfterAddAlways(v, doc, before, after) ==
    IF after # before THEN [exists |-> TRUE, rooms |-> after] ELSE doc

LogAfterAddAlways(v, log, before, after) ==
    IF after # before THEN Append(log, "rooms") ELSE log

\* what a registration writes to rooms.json: pkg add_room saves the whole
\* in-memory dataset when it inserts; root writes nothing until the end
DocAfterAdd(v, doc, before, after) ==
    IF v = "pkg" /\ after # before THEN [exists |-> TRUE, rooms |-> after]
    ELSE doc

LogAfterAdd(v, log, before, after) ==
    IF v = "pkg" /\ after # before THEN Append(log, "rooms") ELSE log

\* a loop condition that lets the count reach one past the budget
LoopCondOffByOne == path_stack # <<>> /\ rooms_visited <= MAX_ROOMS

\* while path_stack and rooms_visited < MAX_ROOMS
LoopCond == path_stack # <<>> /\ rooms_visited < MAX_ROOMS

\* lines 57-86 (pkg) / 66-101 (root): load, observe, resume check, register,
\* push
StartOk(lookOk, exitsOk) ==
    LET loaded == LoadRooms(variant, roomsDoc)
        obs == Observe(loc, lookOk, exitsOk, uuidCtr + 1)
        stack0 == ResumeStack(stackDoc.ids, obs.id)
        after == AddRoom(loaded, obs.id, RoomRecord(variant, obs))
    IN /\ room' = obs
       /\ uuidCtr' = uuidCtr + UuidsUsed(obs.look)
       /\ room_data' = after
       /\ roomsDoc' = DocAfterAdd(variant, roomsDoc, loaded, after)
       /\ ioLog' = LogAfterAdd(variant, <<>>, loaded, after)
       /\ path_stack' = Append(stack0, obs.id)
       /\ resumeLog' = [persisted |-> stackDoc.ids, observed |-> obs.id,
                        entering |-> Append(stack0, obs.id)]
       /\ rooms_visited' = 0
       /\ pc' = "loop"
       /\ exitReason' = "none"
       /\ lastStep' = NoStep
       /\ movesSent' = 0
       /\ seenAt' = seenAt \cup {<<loc, obs.id>>}
       /\ lastObs' = [made |-> TRUE, lookOk |-> lookOk, exitsOk |-> exitsOk,
                      room |-> obs]
       /\ docs0' = [rooms |-> roomsDoc, stack |-> stackDoc]
       /\ sent' = GetCurrentRoomCommands
       /\ UNCHANGED <<stackDoc, loc, linkLog>>

\* DAORoom._load_data raises FileNotFoundError when rooms.json is missing
StartStoreUnavailable ==
    /\ room' = NoRoom
    /\ room_data' = EmptyRooms
    /\ path_stack' = <<>>
    /\ rooms_visited' = 0
    /\ resumeLog' = NoResume
    /\ ioLog' = <<>>
    /\ lastStep' = NoStep
    /\ pc' = "ended"
    /\ exitReason' = "StoreUnavailable"
    /\ movesSent' = 0
    /\ docs0' = [rooms |-> roomsDoc, stack |-> stackDoc]
    /\ sent' = <<>>
    /\ UNCHANGED <<roomsDoc, stackDoc, loc, uuidCtr, seenAt, lastObs,
                   linkLog>>

Start ==
    /\ UNCHANGED <<svars, rvars, ovars>>
    /\ pc \in {"idle", "ended"}
    /\ runs < MaxRuns
    /\ runs' = runs + 1
    /\ UNCHANGED variant
    /\ IF variant = "pkg" /\ ~roomsDoc.exists
       THEN StartStoreUnavailable /\ UNCHANGED failures
       ELSE \E lookOk \in BOOLEAN, exitsOk \in BOOLEAN :
              LET nf == IF lookOk /\ exitsOk THEN 0 ELSE 1
              IN /\ failures + nf <= MaxFailures
                 /\ (lookOk /\ LookText(loc) = PITCH_BLACK) => uuidCtr < MaxUuid
                 /\ failures' = failures + nf
                 /\ StartOk(lookOk, exitsOk)

\* one forward iteration: choose an untraversed exit, send it, observe,
\* register, record the link, push, count
StepMove ==
    /\ UNCHANGED <<svars, rvars, ovars>>
    /\ pc = "loop"
    /\ LoopCond
    /\ Last(path_stack) \in DOMAIN room_data
    /\ LET top == Last(path_stack)
           cur == room_data[top]
       IN \E d \in Untraversed(variant, room, cur) :
          \E lookOk \in BOOLEAN, exitsOk \in BOOLEAN :
            LET nf == IF lookOk /\ exitsOk THEN 0 ELSE 1
                dest == MoveFrom(loc, d)
                obs == Observe(dest, lookOk, exitsOk, uuidCtr + 1)
                added == AddRoom(room_data, obs.id, RoomRecord(variant, obs))
            IN /\ failures + nf <= MaxFailures
               /\ (lookOk /\ LookText(dest) = PITCH_BLACK) => uuidCtr < MaxUuid
               /\ failures' = failures + nf
               /\ loc' = dest
               /\ uuidCtr' = uuidCtr + UuidsUsed(obs.look)
               /\ room_data' = RecordLink(variant, added, top, d, obs.id)
               /\ roomsDoc' = DocAfterAdd(variant, roomsDoc, room_data, added)
               /\ ioLog' = LogAfterAdd(variant, ioLog, room_data, added)
               /\ path_stack' = Append(path_stack, obs.id)
               /\ rooms_visited' = rooms_visited + 1
               /\ lastStep' = [kind |-> "move", dir |-> d, top |-> top,
                               linked |-> Linked(cur),
                               listed |-> room.exits, seen |-> obs.id,
                               prev |-> lastStep.kind, from |-> loc]
               /\ movesSent' = movesSent + 1
               /\ sent' = Append(sent, MoveCommand(d))
                             \o GetCurrentRoomCommands
               /\ seenAt' = seenAt \cup {<<dest, obs.id>>}
               /\ lastObs' = [made |-> TRUE, lookOk |-> lookOk,
                              exitsOk |-> exitsOk, room |-> obs]
               /\ linkLog' = linkLog \cup
                      {[place |-> loc, from |-> l[1], dir |-> l[2], to |-> l[3]] :
                          l \in NewLinks(added, room_data')}
    /\ UNCHANGED <<variant, stackDoc, room, pc, exitReason, runs, resumeLog,
                   docs0>>

\* a backtrack that also walks the session back: it pops and sends a
\* movement command
StepBacktrackWalksBack ==
    /\ UNCHANGED <<svars, rvars, ovars>>
    /\ pc = "loop"
    /\ LoopCond
    /\ Last(path_stack) \in DOMAIN room_data
    /\ LET top == Last(path_stack)
           cur == room_data[top]
       IN /\ Untraversed(variant, room, cur) = {}
          /\ lastStep' = [kind |-> "pop", dir |-> "-", top |-> top,
                          linked |-> Linked(cur), listed |-> room.exits,
                          seen |-> NoId, prev |-> lastStep.kind,
                          from |-> loc]
    /\ path_stack' = Front(path_stack)
    /\ \E d \in Dirs :
         /\ loc' = MoveFrom(loc, d)
         /\ sent' = Append(sent, MoveCommand(d))
    /\ UNCHANGED <<variant, roomsDoc, stackDoc, room_data, rooms_visited,
                   room, pc, exitReason, uuidCtr, runs, failures, ioLog,
                   movesSent, seenAt, lastObs, linkLog, resumeLog,
                   docs0>>

\* the id stands for the place p: it is the id a successful observation
\* made with the session at p has (the md5 of what `look` prints there, or
\* one of the uuids drawn there when the place is pitch black)
Tracks(id, p) ==
    IF LookText(p) = PITCH_BLACK THEN IsBlack(id) /\ <<p, id>> \in seenAt
    ELSE id = Md5(LookText(p))

\* a backtrack that takes the session along: it pops and puts the session
\* in the place of the new last id
StepBacktrackResyncs ==
    /\ UNCHANGED <<svars, rvars, ovars>>
    /\ pc = "loop"
    /\ LoopCond
    /\ Last(path_stack) \in DOMAIN room_data
    /\ LET top == Last(path_stack)
           cur == room_data[top]
       IN /\ Untraversed(variant, room, cur) = {}
          /\ lastStep' = [kind |-> "pop", dir |-> "-", top |-> top,
                          linked |-> Linked(cur), listed |-> room.exits,
                          seen |-> NoId, prev |-> lastStep.kind,
                          from |-> loc]
    /\ path_stack' = Front(path_stack)
    /\ LET below == {q \in Places : /\ path_stack' # <<>>
                                    /\ Tracks(Last(path_stack'), q)}
       IN loc' \in (IF below = {} THEN {loc} ELSE below)
    /\ UNCHANGED <<variant, roomsDoc, stackDoc, room_data, rooms_visited,
                   room, pc, exitReason, uuidCtr, runs, failures, ioLog,
                   movesSent, seenAt, lastObs, linkLog, resumeLog,
                   docs0, sent>>

\* no untraversed exit: path_stack.pop(), and nothing is sent
StepBacktrack ==
    /\ UNCHANGED <<svars, rvars, ovars>>
    /\ pc = "loop"
    /\ LoopCond
    /\ Last(path_stack) \in DOMAIN room_data
    /\ LET top == Last(path_stack)
           cur == room_data[top]
       IN /\ Untraversed(variant, room, cur) = {}
          /\ lastStep' = [kind |-> "pop", dir |-> "-", top |-> top,
                          linked |-> Linked(cur), listed |-> room.exits,
                          seen |-> NoId, prev |-> lastStep.kind,
                          from |-> loc]
    /\ path_stack' = Front(path_stack)
    /\ UNCHANGED <<variant, loc, roomsDoc, stackDoc, room_data, rooms_visited,
                   room, pc, exitReason, uuidCtr, runs, failures, ioLog,
                   movesSent, seenAt, lastObs, linkLog, resumeLog,
                   docs0, sent>>

\* the stack's last id has no record: room_data[current_room_id] raises
\* KeyError (root); get_room_by_id returns None and current_room.get raises
\* AttributeError (pkg)
LookupFails ==
    /\ UNCHANGED <<svars, rvars, ovars>>
    /\ pc = "loop"
    /\ LoopCond
    /\ Last(path_stack) \notin DOMAIN room_data
    /\ pc' = "ended"
    /\ exitReason' = "LookupFailed"
    /\ UNCHANGED <<variant, loc, roomsDoc, stackDoc, room_data, path_stack,
                   rooms_visited, room, uuidCtr, runs, failures, ioLog,
                   lastStep, movesSent, seenAt, lastObs, linkLog, resumeLog,
                   docs0, sent>>

\* after the loop: root save_rooms then save_stack; pkg save_stack only
Checkpoint ==
    /\ UNCHANGED <<svars, rvars, ovars>>
    /\ pc = "loop"
    /\ ~LoopCond
    /\ IF variant = "root"
       THEN /\ roomsDoc' = [exists |-> TRUE, rooms |-> room_data]
            /\ ioLog' = ioLog \o <<"rooms", "stack">>
       ELSE /\ UNCHANGED roomsDoc
            /\ ioLog' = Append(ioLog, "stack")
    /\ stackDoc' = [exists |-> TRUE, ids |-> path_stack]
    /\ pc' = "ended"
    /\ exitReason' = IF path_stack = <<>> THEN "Exhausted" ELSE "BudgetReached"
    /\ UNCHANGED <<variant, loc, room_data, path_stack, rooms_visited, room,
                   uuidCtr, runs, failures, lastStep, movesSent, seenAt,
                   lastObs,
                   linkLog, resumeLog, docs0, sent>>

\* MUDClient.send_and_read writes the command outside its try block: a
\* failure of the write propagates out of travel_rooms before the iteration
\* has changed anything; the command may or may not have reached the server
TransportRaises ==
    /\ UNCHANGED <<svars, rvars, ovars>>
    /\ pc = "loop"
    /\ LoopCond
    /\ Last(path_stack) \in DOMAIN room_data
    /\ \E d \in Untraversed(variant, room, room_data[Last(path_stack)]) :
          /\ loc' \in {loc, MoveFrom(loc, d)}
          /\ sent' = Append(sent, MoveCommand(d))
    /\ pc' = "ended"
    /\ exitReason' = "TransportFailed"
    /\ UNCHANGED <<variant, roomsDoc, stackDoc, room_data, path_stack,
                   rooms_visited, room, uuidCtr, runs, failures, ioLog,
                   lastStep, movesSent, seenAt, lastObs, linkLog, resumeLog,
                   docs0>>

-----------------------------------------------------------------------------
(* DAORoom: the room store (dao_room.py and wotmud_player/dao_room.py) *)

NoDoc == [exists |-> FALSE, rooms |-> EmptyRooms]
EmptyDoc == [exists |-> TRUE, rooms |-> EmptyRooms]

StoreIds == {Md5("hall"), Md5("shop"), BlackId(1)}

\* two room dicts that can arrive under one id: the same description seen
\* with and without its exit listing
StoreRecs ==
    {[look |-> "hall", exits |-> EmptyExits],
     [look |-> "hall", exits |-> [d \in {"N"} |-> NoId]]}

NoRec == [look |-> "", exits |-> EmptyExits]

NoDaoCall == [op |-> "none", id |-> NoId, rec |-> NoRec, present |-> FALSE,
              result |-> "none", before |-> EmptyRooms, docBefore |-> NoDoc]

\* what add_room hands back: the root DAORoom raises ValueError for an id it
\* holds; otherwise, and always in pkg, the method ends without a return
\* value
AddRoomResult(v, rooms, id) ==
    IF v = "root" /\ id \in DOMAIN rooms THEN "ValueError" ELSE "None"

\* _save_data after an insertion: the document becomes the whole dataset
DaoSave(doc, before, after) ==
    IF after # before THEN [exists |-> TRUE, rooms |-> after] ELSE doc

\* get_room_by_id: self._rooms.get(str(room_id))
GetRoomById(rooms, id) ==
    IF id \in DOMAIN rooms THEN [found |-> TRUE, rec |-> rooms[id]]
    ELSE [found |-> FALSE, rec |-> NoRec]

DaoAddRoom ==
    /\ daoInst = "ready"
    /\ UNCHANGED daoInst
    /\ \E id \in StoreIds, rec \in StoreRecs :
         LET after == AddRoom(dao_rooms, id, rec) IN
         /\ dao_rooms' = after
         /\ daoDoc' = DaoSave(daoDoc, dao_rooms, after)
         /\ daoCall' = [op |-> "add", id |-> id, rec |-> rec,
                        present |-> id \in DOMAIN dao_rooms,
                        result |-> AddRoomResult(variant, dao_rooms, id),
                        before |-> dao_rooms, docBefore |-> daoDoc]
         /\ daoFirst' = IF id \in DOMAIN daoFirst THEN daoFirst
                        ELSE [i \in DOMAIN daoFirst \cup {id} |->
                                IF i = id THEN rec ELSE daoFirst[i]]
    /\ UNCHANGED <<evars, rvars, ovars>>

DaoGetRoom ==
    /\ daoInst = "ready"
    /\ UNCHANGED daoInst
    /\ \E id \in StoreIds :
         LET got == GetRoomById(dao_rooms, id) IN
         daoCall' = [op |-> "get", id |-> id, rec |-> got.rec,
                     present |-> id \in DOMAIN dao_rooms,
                     result |-> IF got.found THEN "room" ELSE "None",
                     before |-> dao_rooms, docBefore |-> daoDoc]
    /\ UNCHANGED <<evars, rvars, ovars, dao_rooms, daoDoc, daoFirst>>

IdleStore ==
    /\ dao_rooms = EmptyRooms
    /\ daoDoc = EmptyDoc
    /\ daoCall = NoDaoCall
    /\ daoFirst = EmptyRooms
    /\ daoInst = "ready"

\* a rooms.json that holds the hall and a pitch-black room
BlackDoc ==
    [exists |-> TRUE,
     rooms |-> [i \in {Md5("hall"), BlackId(1)} |->
                  [look |-> IF IsBlack(i) THEN PITCH_BLACK ELSE "hall",
                   exits |-> EmptyExits]]]

\* _save_data: json.dump(self._rooms, file)
SaveData(rooms) == [exists |-> TRUE, rooms |-> rooms]

\* DAORoom(): __new__ creates the instance and runs _initialize once; a
\* FileNotFoundError out of _load_data leaves _instance set, without _rooms,
\* and later constructions hand that instance out
DaoNew ==
    /\ daoInst \in {"none", "ready", "broken"}
    /\ IF daoInst = "none"
       THEN IF daoDoc.exists
            THEN /\ dao_rooms' = LoadRooms(variant, daoDoc)
                 /\ daoInst' = "ready"
                 /\ daoCall' = [NoDaoCall EXCEPT !.op = "new",
                                   !.present = TRUE, !.result = "DAORoom",
                                   !.before = dao_rooms,
                                   !.docBefore = daoDoc]
            ELSE /\ daoInst' = "broken"
                 /\ daoCall' = [NoDaoCall EXCEPT !.op = "new",
                                   !.result = "FileNotFoundError",
                                   !.before = dao_rooms,
                                   !.docBefore = daoDoc]
                 /\ UNCHANGED dao_rooms
       ELSE /\ daoCall' = [NoDaoCall EXCEPT !.op = "new",
                              !.present = daoDoc.exists,
                              !.result = "DAORoom", !.before = dao_rooms,
                              !.docBefore = daoDoc]
            /\ UNCHANGED <<dao_rooms, daoInst>>
    /\ UNCHANGED <<evars, rvars, ovars, daoDoc, daoFirst>>

\* load_rooms of main.py: json.load when rooms.json exists, [] otherwise
MainLoadRooms ==
    /\ daoInst = "none"
    /\ variant = "root"
    /\ dao_rooms' = IF daoDoc.exists THEN daoDoc.rooms ELSE EmptyRooms
    /\ daoInst' = "list"
    /\ daoCall' = [NoDaoCall EXCEPT !.op = "load_rooms",
                      !.present = daoDoc.exists, !.result = "list",
                      !.before = dao_rooms, !.docBefore = daoDoc]
    /\ UNCHANGED <<evars, rvars, ovars, daoDoc, daoFirst>>

\* get_all_rooms: return self._rooms
DaoGetAllRooms ==
    /\ daoInst = "ready"
    /\ daoCall' = [NoDaoCall EXCEPT !.op = "all", !.result = "dict",
                      !.before = dao_rooms, !.docBefore = daoDoc]
    /\ UNCHANGED <<evars, rvars, ovars, dao_rooms, daoDoc, daoFirst, daoInst>>

\* the dicts update_room is given
UpdateData == {[look |-> "shop"]}

\* dict.update
DictUpdate(rec, data) ==
    [k \in DOMAIN rec \cup DOMAIN data |->
        IF k \in DOMAIN data THEN data[k] ELSE rec[k]]

\* update_room: KeyError for an id it does not hold; otherwise the record is
\* updated in place and the dataset is saved
DaoUpdateRoom ==
    /\ daoInst = "ready"
    /\ \E id \in StoreIds, data \in UpdateData :
         /\ daoCall' = [op |-> "update", id |-> id, rec |-> data,
                        present |-> id \in DOMAIN dao_rooms,
                        result |-> IF id \in DOMAIN dao_rooms THEN "None"
                                   ELSE "KeyError",
                        before |-> dao_rooms, docBefore |-> daoDoc]
         /\ IF id \in DOMAIN dao_rooms
            THEN /\ dao_rooms' = [dao_rooms EXCEPT
                                    ![id] = DictUpdate(@, data)]
                 /\ daoDoc' = SaveData(dao_rooms')
            ELSE UNCHANGED <<dao_rooms, daoDoc>>
    /\ UNCHANGED <<evars, rvars, ovars, daoFirst, daoInst>>

\* delete_room: KeyError for an id it does not hold; otherwise the record is
\* removed and the dataset is saved
DaoDeleteRoom ==
    /\ daoInst = "ready"
    /\ \E id \in StoreIds :
         /\ daoCall' = [op |-> "delete", id |-> id, rec |-> NoRec,
                        present |-> id \in DOMAIN dao_rooms,
                        result |-> IF id \in DOMAIN dao_rooms THEN "None"
                                   ELSE "KeyError",
                        before |-> dao_rooms, docBefore |-> daoDoc]
         /\ IF id \in DOMAIN dao_rooms
            THEN /\ dao_rooms' = [i \in DOMAIN dao_rooms \ {id} |->
                                    dao_rooms[i]]
                 /\ daoDoc' = SaveData(dao_rooms')
            ELSE UNCHANGED <<dao_rooms, daoDoc>>
    /\ UNCHANGED <<evars, rvars, ovars, daoFirst, daoInst>>

\* no DAORoom constructed yet; rooms.json missing, empty or filled
NoStore ==
    /\ dao_rooms = EmptyRooms
    /\ daoDoc \in {NoDoc, EmptyDoc, BlackDoc}
    /\ daoCall = NoDaoCall
    /\ daoFirst = EmptyRooms
    /\ daoInst = "none"

-----------------------------------------------------------------------------
(* Room / RoomMap: the exits of a room object and the linking methods      *)
(* (mud_room.py, wotmud_player/mud_room_map.py)                            *)

Dirs6 == {"N", "S", "E", "W", "U", "D"}

\* direction arguments a caller may pass (non-empty strings); NoneTok is
\* Python's None, which _opposite_exit hands on for an unknown direction
NoneTok == "<None>"
DirTokens == Dirs6 \cup {"X", "north"}

\* direction[0].upper()
FirstUpper(tok) == IF tok = "north" THEN "N" ELSE tok

\* direction.upper()
Upper(tok) == IF tok = "north" THEN "NORTH" ELSE tok

\* RoomMap.exit_map
exit_map ==
    [d \in Dirs6 |->
        CASE d = "N" -> "S" [] d = "S" -> "N" [] d = "E" -> "W"
          [] d = "W" -> "E" [] d = "U" -> "D" [] d = "D" -> "U"]

ExitDescription(d) ==
    CASE d = "N" -> "Grand Corridor" [] d = "W" -> "Kitchen"
      [] d = "S" -> "Hall" [] OTHER -> "Road"

\* the exit listings a room is built from, as the keys _extract_exits finds
ListingKeys == SUBSET {"N", "S", "W"}

\* Room._extract_exits: {direction: {"description": ..., "room": None}}
ExtractExits(keys) ==
    [d \in keys |-> [description |-> ExitDescription(d), room |-> NoId,
                     record |-> TRUE]]

\* Room.map_room_to_exit (mud_room.py): the first letter, upper-cased, must
\* be a key of exits
MapRoomToExitRoom(exits, direction, target) ==
    IF FirstUpper(direction) \in DOMAIN exits
    THEN [exits |-> [exits EXCEPT ![FirstUpper(direction)].room = target],
          result |-> "None"]
    ELSE [exits |-> exits, result |-> "ValueError"]

\* RoomMap.map_room_to_exit (wotmud_player): the direction must be a key of
\* exit_map; exits[direction] becomes the bare room id
MapRoomToExitPkg(exits, direction, target) ==
    IF direction = NoneTok \/ direction \notin DOMAIN exit_map
    THEN [exits |-> exits, result |-> "ValueError"]
    ELSE [exits |-> [k \in DOMAIN exits \cup {direction} |->
                        IF k = direction
                        THEN [description |-> "", room |-> target,
                              record |-> FALSE]
                        ELSE exits[k]],
          result |-> "None"]

MapRoomToExit(v, exits, direction, target) ==
    IF v = "root" THEN MapRoomToExitRoom(exits, direction, target)
    ELSE MapRoomToExitPkg(exits, direction, target)

\* RoomMap._opposite_exit: exit_map.get(direction.upper(), None)
OppositeExit(direction) ==
    IF Upper(direction) \in DOMAIN exit_map THEN exit_map[Upper(direction)]
    ELSE NoneTok

LinkTargets == {Md5("hall"), Md5("shop")}

NoEnt == [built |-> FALSE, exits |-> ExtractExits({}), keys0 |-> {},
          calls |-> 0]
NoEntCall == [op |-> "none", direction |-> "", target |-> NoId,
              result |-> "none", before |-> ExtractExits({})]

\* Room(look_output, exits_output)
RoomNew ==
    /\ ~ent.built
    /\ \E keys \in ListingKeys :
         ent' = [built |-> TRUE, exits |-> ExtractExits(keys), keys0 |-> keys,
                 calls |-> 0]
    /\ entCall' = NoEntCall
    /\ UNCHANGED <<evars, svars, ovars>>

RoomMapRoomToExit ==
    /\ ent.built
    /\ ent.calls < MaxLinks
    /\ \E direction \in DirTokens, target \in LinkTargets :
         LET r == MapRoomToExit(variant, ent.exits, direction, target) IN
         /\ ent' = [ent EXCEPT !.exits = r.exits, !.calls = @ + 1]
         /\ entCall' = [op |-> "link", direction |-> direction,
                        target |-> target, result |-> r.result,
                        before |-> ent.exits]
    /\ UNCHANGED <<evars, svars, ovars>>

\* RoomMap.map_room_to_opposite_exit (wotmud_player only)
RoomMapRoomToOppositeExit ==
    /\ ent.built
    /\ ent.calls < MaxLinks
    /\ variant = "pkg"
    /\ \E direction \in DirTokens, target \in LinkTargets :
         LET r == MapRoomToExitPkg(ent.exits, OppositeExit(direction), target)
         IN /\ ent' = [ent EXCEPT !.exits = r.exits, !.calls = @ + 1]
            /\ entCall' = [op |-> "link_opposite", direction |-> direction,
                           target |-> target, result |-> r.result,
                           before |-> ent.exits]
    /\ UNCHANGED <<evars, svars, ovars>>

\* MUDMap.get_opposite: opposites.get(direction, None), a table of its own
GetOpposite(direction) ==
    CASE direction = "N" -> "S" [] direction = "S" -> "N"
      [] direction = "E" -> "W" [] direction = "W" -> "E"
      [] OTHER -> NoneTok

\* MUDMap.get_opposite(direction), as connect_rooms calls it
MapGetOpposite ==
    /\ \E direction \in DirTokens :
         entCall' = [op |-> "get_opposite", direction |-> direction,
                     target |-> NoId, result |-> GetOpposite(direction),
                     before |-> ent.exits]
    /\ UNCHANGED <<evars, svars, ovars, ent>>

IdleRoom ==
    /\ ent = NoEnt
    /\ entCall = NoEntCall

-----------------------------------------------------------------------------
(* RoomFeatures and the id of a Room (mud_room_features.py, mud_room.py,    *)
(* room.py)                                                                *)

\* A look transcript is the text before the first ANSI colour code and then
\* chunks of a colour code with the text that follows it.  "<n>" stands for
\* the escape sequence ESC[nm.
COLOR_CYAN == "<36>"
COLOR_GREEN == "<32>"
COLOR_YELLOW == "<33>"
COLOR_DEFAULT == "<0>"
COLOR_RED == "<31>"

Codes == {COLOR_CYAN, COLOR_DEFAULT, COLOR_RED}
\* the text of a chunk is a sequence of tokens: a word, a space, a line feed
\* or a carriage return
LF == "\n"
CR == "\r"
SP == " "

Texts == {<<>>, <<"Hall">>}
Leads == {"", "junk", PITCH_BLACK}
Chunks == [code : Codes, text : Texts]
ChunkSeqs ==
    {<<>>} \cup {<<c>> : c \in Chunks} \cup {<<c, d>> : c, d \in Chunks}
Transcripts == [lead : Leads, chunks : ChunkSeqs]

RECURSIVE Flatten(_)
Flatten(text) ==
    IF text = <<>> THEN "" ELSE text[1] \o Flatten(Tail(text))

\* the text the server sent, as one string
RECURSIVE RawChunks(_)
RawChunks(cs) ==
    IF cs = <<>> THEN ""
    ELSE cs[1].code \o Flatten(cs[1].text) \o RawChunks(Tail(cs))

Raw(t) == t.lead \o RawChunks(t.chunks)

\* _parse_input_string: the colour a code selects
CurrentColor(code) ==
    IF code \in {COLOR_GREEN, COLOR_YELLOW, COLOR_CYAN} THEN code
    ELSE COLOR_DEFAULT

\* color_text_dict as the ordered list of its items: <<colour, segments>>;
\* a key is created when missing, then the list under it is extended
DictExtend(dict, color, segments) ==
    IF \E i \in 1..Len(dict) : dict[i][1] = color
    THEN [i \in 1..Len(dict) |->
            IF dict[i][1] = color
            THEN <<color, dict[i][2] \o segments>> ELSE dict[i]]
    ELSE Append(dict, <<color, segments>>)

\* str.strip() strips these
IsSpace(tok) == tok \in {LF, CR, SP}

\* not text.strip()
Blank(text) == \A i \in 1..Len(text) : IsSpace(text[i])

\* text.replace("\n\r", " "): left to right, without overlap
RECURSIVE ReplaceWrap(_)
ReplaceWrap(text) ==
    IF Len(text) < 2 THEN text
    ELSE IF text[1] = LF /\ text[2] = CR
         THEN <<SP>> \o ReplaceWrap(SubSeq(text, 3, Len(text)))
         ELSE <<text[1]>> \o ReplaceWrap(Tail(text))

\* text.strip()
Strip(text) ==
    LET solid == {i \in 1..Len(text) : ~IsSpace(text[i])}
    IN  IF solid = {} THEN <<>>
        ELSE SubSeq(text,
                    CHOOSE i \in solid : \A j \in solid : i <= j,
                    CHOOSE i \in solid : \A j \in solid : j <= i)

\* text.replace("\r", "")
DropCR(text) == SelectSeq(text, LAMBDA tok : tok # CR)

\* text.split("\n"): the lines, each as one string
RECURSIVE SplitLines(_)
SplitLines(text) ==
    LET feeds == {i \in 1..Len(text) : text[i] = LF}
    IN  IF feeds = {} THEN <<Flatten(text)>>
        ELSE LET i == CHOOSE k \in feeds : \A j \in feeds : k <= j
             IN  <<Flatten(SubSeq(text, 1, i - 1))>>
                     \o SplitLines(SubSeq(text, i + 1, Len(text)))

\* the segments of a run that joins wrapped lines in every category
TextSegmentsWrapAll(color, text) ==
    SelectSeq(SplitLines(DropCR(Strip(ReplaceWrap(text)))),
              LAMBDA segment : segment # "")

\* _parse_input_string: the segments one run of text adds under its colour;
\* only in the default colour is "\n\r" a wrap inside a line
TextSegments(color, text) ==
    SelectSeq(SplitLines(DropCR(Strip(
                  IF color = COLOR_DEFAULT THEN ReplaceWrap(text)
                  ELSE text))),
              LAMBDA segment : segment # "")

\* a parse in which a code followed by no text keeps hold of the next run
RECURSIVE ParseChunksFirstWins(_, _)
ParseChunksFirstWins(cs, dict) ==
    IF cs = <<>> THEN dict
    ELSE IF Blank(cs[1].text)
         THEN IF Len(cs) >= 2 /\ cs[1].text = <<>>
              THEN ParseChunksFirstWins(
                       <<[cs[2] EXCEPT !.code = cs[1].code]>>
                           \o SubSeq(cs, 3, Len(cs)), dict)
              ELSE ParseChunksFirstWins(Tail(cs), dict)
         ELSE ParseChunksFirstWins(Tail(cs),
                  DictExtend(dict, CurrentColor(cs[1].code),
                             TextSegments(CurrentColor(cs[1].code),
                                          cs[1].text)))

\* _parse_input_string: the regex finds a colour code and the text up to the
\* next one, so the text before the first code is never matched; a chunk
\* whose text is blank is skipped
RECURSIVE ParseChunks(_, _)
ParseChunks(cs, dict) ==
    IF cs = <<>> THEN dict
    ELSE ParseChunks(Tail(cs),
                     IF Blank(cs[1].text) THEN dict
                     ELSE DictExtend(dict, CurrentColor(cs[1].code),
                                     TextSegments(CurrentColor(cs[1].code),
                                                  cs[1].text)))

ParseInputString(t) == ParseChunks(t.chunks, <<>>)

\* RoomFeatures.to_dict: color_name_map
ColorName(color) ==
    CASE color = COLOR_CYAN -> "name" [] color = COLOR_GREEN -> "items"
      [] color = COLOR_YELLOW -> "mobs" [] OTHER -> "description"

RECURSIVE JoinLines(_)
JoinLines(lines) ==
    IF lines = <<>> THEN ""
    ELSE IF Len(lines) = 1 THEN lines[1]
    ELSE lines[1] \o "\n" \o JoinLines(Tail(lines))

\* RoomFeatures.__str__: "name : segments" lines joined by newlines
FeaturesStr(dict) ==
    JoinLines([i \in 1..Len(dict) |->
                 ColorName(dict[i][1]) \o " : " \o JoinLines(dict[i][2])])

\* what the id of a Room is the hash of: str(self.features) in mud_room.py
\* (pkg), self.description = look_output in room.py (root)
Rendering(v, t) ==
    IF v = "root" THEN Raw(t) ELSE FeaturesStr(ParseInputString(t))

\* an id that also hashes the exit listing
GenerateRoomIdWithExits(v, t, listing, n) ==
    IF Raw(t) = PITCH_BLACK THEN BlackId(n)
    ELSE Md5(Rendering(v, t) \o (IF listing = {} THEN "" ELSE "+exits"))

\* an id that hands out the same value for every pitch-black room
GenerateRoomIdOneBlack(v, t, listing, n) ==
    IF Raw(t) = PITCH_BLACK THEN BlackId(1) ELSE Md5(Rendering(v, t))

\* Room._generate_id
GenerateRoomId(v, t, listing, n) ==
    IF Raw(t) = PITCH_BLACK THEN BlackId(n) ELSE Md5(Rendering(v, t))

\* color_text_dict.get(color_code, [])
GetFeaturesByColor(dict, color) ==
    IF \E i \in 1..Len(dict) : dict[i][1] = color
    THEN dict[CHOOSE i \in 1..Len(dict) : dict[i][1] = color][2]
    ELSE <<>>

\* RoomFeatures.to_dict: the segments under the name of their colour
ToDict(dict) ==
    [name \in {ColorName(dict[i][1]) : i \in 1..Len(dict)} |->
        dict[CHOOSE i \in 1..Len(dict) : ColorName(dict[i][1]) = name][2]]

\* the input strings a RoomFeatures object is made from: short ones of every
\* make, and ones of the shape of a room as the server shows it
AllCodes ==
    {COLOR_CYAN, COLOR_GREEN, COLOR_YELLOW, COLOR_DEFAULT, COLOR_RED}
FeatureLeads == {"", "hall", "inn"}
FeatureTexts ==
    {<<>>, <<"Hall">>, <<SP>>, <<CR, LF>>,
     <<"a", LF, CR, "b">>, <<"a", CR, LF, "b">>,
     <<"a", CR, LF, CR, LF, "b">>, <<CR, LF, "a", LF, CR>>}
FeatureChunks == [code : AllCodes, text : FeatureTexts]
ShortTranscripts ==
    [lead : FeatureLeads,
     chunks : {<<>>} \cup {<<c>> : c \in FeatureChunks}
                  \cup {<<c, d>> : c, d \in FeatureChunks}]
Titles == {<<"Inn">>}
Proses ==
    {<<CR, LF, "a", LF, CR, "b", LF, CR, "exits", CR, LF>>,
     <<CR, LF, "a", CR, LF>>}
MobLines == {<<"cat", LF, CR, "dog", CR, LF>>, <<"cat", CR, LF>>}
Trailers == {<<CR, LF>>, <<CR, LF, "prompt", SP>>}
RoomShaped ==
    {[lead |-> "",
      chunks |-> <<[code |-> COLOR_CYAN, text |-> title],
                   [code |-> COLOR_DEFAULT, text |-> prose],
                   [code |-> COLOR_GREEN, text |-> <<>>],
                   [code |-> COLOR_YELLOW, text |-> mobs],
                   [code |-> COLOR_DEFAULT, text |-> trailer]>>] :
        title \in Titles, prose \in Proses, mobs \in MobLines,
        trailer \in Trailers}
FeatureInputs == ShortTranscripts \cup RoomShaped

EmptyDict == [name \in {} |-> <<>>]
NoFeat == [made |-> FALSE, t |-> [lead |-> "", chunks |-> <<>>],
           dict |-> <<>>]
NoFeatCall == [op |-> "none", color |-> "", segs |-> <<>>,
               names |-> EmptyDict, str |-> ""]

\* RoomFeatures(input_string)
FeaturesNew ==
    /\ ~feat.made
    /\ \E t \in FeatureInputs :
         feat' = [made |-> TRUE, t |-> t, dict |-> ParseInputString(t)]
    /\ featCall' = NoFeatCall
    /\ UNCHANGED <<evars, svars, rvars, ivars, cvars, xvars, gvars>>

\* get_features_by_color(color_code)
FeaturesGetByColor ==
    /\ feat.made
    /\ \E color \in AllCodes :
         featCall' = [NoFeatCall EXCEPT
                        !.op = "get", !.color = color,
                        !.segs = GetFeaturesByColor(feat.dict, color)]
    /\ UNCHANGED <<evars, svars, rvars, ivars, cvars, xvars, gvars, feat>>

\* to_dict()
FeaturesToDict ==
    /\ feat.made
    /\ featCall' = [NoFeatCall EXCEPT
                      !.op = "to_dict", !.names = ToDict(feat.dict)]
    /\ UNCHANGED <<evars, svars, rvars, ivars, cvars, xvars, gvars, feat>>

\* str(features)
FeaturesToStr ==
    /\ feat.made
    /\ featCall' = [NoFeatCall EXCEPT
                      !.op = "str", !.str = FeaturesStr(feat.dict)]
    /\ UNCHANGED <<evars, svars, rvars, ivars, cvars, xvars, gvars, feat>>

IdleFeatures ==
    /\ feat = NoFeat
    /\ featCall = NoFeatCall

ExitListings == {{}, {"N"}}

NoBuilt == [built |-> FALSE, t |-> [lead |-> "", chunks |-> <<>>],
            listing |-> {}, id |-> NoId, registered |-> FALSE]

\* Room(look_output, exits_output), the first of two
RoomBuildA ==
    /\ ~roomA.built
    /\ \E t \in Transcripts :
         roomA' = [built |-> TRUE, t |-> t, listing |-> {},
                   id |-> GenerateRoomId(variant, t, {}, 1),
                   registered |-> FALSE]
    /\ UNCHANGED <<evars, svars, rvars, cvars, fvars, xvars, gvars, roomB>>

\* Room(look_output, exits_output), the second; uuid4() never repeats
RoomBuildB ==
    /\ roomA.built
    /\ ~roomB.built
    /\ \E t \in Transcripts, listing \in ExitListings :
         roomB' = [built |-> TRUE, t |-> t, listing |-> listing,
                   id |-> GenerateRoomId(variant, t, listing,
                              IF IsBlack(roomA.id) THEN 2 ELSE 1),
                   registered |-> FALSE]
    /\ UNCHANGED <<evars, svars, rvars, cvars, fvars, xvars, gvars, roomA>>

\* travel_rooms registering an observed Room: it is added when the dataset
\* has no record under its id
RegisterBuilt(r) ==
    AddRoom(dao_rooms, r.id,
            RoomRecord(variant, [look |-> Raw(r.t), exits |-> r.listing]))

RoomRegisterA ==
    /\ roomA.built /\ ~roomA.registered
    /\ dao_rooms' = RegisterBuilt(roomA)
    /\ daoDoc' = DaoSave(daoDoc, dao_rooms, dao_rooms')
    /\ roomA' = [roomA EXCEPT !.registered = TRUE]
    /\ UNCHANGED <<evars, rvars, cvars, fvars, xvars, gvars, roomB,
                   daoCall, daoFirst,
                   daoInst>>

RoomRegisterB ==
    /\ roomB.built /\ ~roomB.registered
    /\ roomA.registered
    /\ dao_rooms' = RegisterBuilt(roomB)
    /\ daoDoc' = DaoSave(daoDoc, dao_rooms, dao_rooms')
    /\ roomB' = [roomB EXCEPT !.registered = TRUE]
    /\ UNCHANGED <<evars, rvars, cvars, fvars, xvars, gvars, roomA,
                   daoCall, daoFirst,
                   daoInst>>

IdleIdentity ==
    /\ roomA = NoBuilt
    /\ roomB = NoBuilt

-----------------------------------------------------------------------------
(* MUDClient and main(): connect, login, send_and_read, close              *)
(* (mud_client.py, wotmud_player/mud_client.py, main.py)                   *)

NoCall == [active |-> FALSE, output |-> 0]
NoResult == [kind |-> "none", cause |-> "none", output |-> 0,
             accumulated |-> 0]

\* main() awaits every send_and_read: the next statement runs only when the
\* call has returned
CanSendAlways == TRUE

CanSend == ~call.active

\* main(): the finally block runs client.close() on every path
FinallyClosesOnSuccess(f) == ~f

FinallyCloses(f) == TRUE

\* a send_and_read that returns "" where the code raises
RaisedAsEmpty(cause, accumulated) ==
    [kind |-> "returned", cause |-> cause, output |-> 0,
     accumulated |-> accumulated]

\* send_and_read line 59-60 and line 63: an exception leaves the call
Raised(cause, accumulated) ==
    [kind |-> "raised", cause |-> cause, output |-> 0,
     accumulated |-> accumulated]

\* send_and_read line 89: return output
Returned(cause, output, accumulated) ==
    [kind |-> "returned", cause |-> cause, output |-> output,
     accumulated |-> accumulated]

\* the statement of main() that follows a returned send_and_read
AfterReturn(pos) ==
    CASE pos = "login" -> "look" [] pos = "look" -> "travel" [] OTHER -> pos

\* where an exception takes main(): except (log, raise) and finally
AfterRaise(pos) == IF pos = "free" THEN "free" ELSE "finally"

\* client.connect(): telnetlib3.open_connection succeeds or raises
ClientConnect ==
    /\ mpc \in {"free", "connect"}
    /\ writer = "None"
    /\ \/ /\ writer' = "open"
          /\ conn' = "up"
          /\ mpc' = IF mpc = "free" THEN "free" ELSE "login_prompt"
          /\ UNCHANGED failed
       \/ /\ mpc = "connect"
          /\ mpc' = "finally"
          /\ failed' = TRUE
          /\ UNCHANGED <<writer, conn>>
    /\ UNCHANGED <<evars, svars, rvars, ivars, fvars, xvars, gvars,
                   call, result, inflight,
                   pending, buffer, cmds, writesAfterClose>>

\* client.login() up to its send_and_read(""): readuntil the two prompts,
\* write the name and the passphrase; readuntil raises when the connection
\* ends first
MainLoginPrompt ==
    /\ mpc = "login_prompt"
    /\ \/ mpc' = "login" /\ UNCHANGED failed
       \/ mpc' = "finally" /\ failed' = TRUE
    /\ UNCHANGED <<evars, svars, rvars, ivars, fvars, xvars, gvars,
                   writer, conn, call, result,
                   inflight, pending, buffer, cmds, writesAfterClose>>

\* send_and_read up to the read loop: the connected check, writer.write
SendAndReadBegin ==
    /\ mpc \in {"free", "login", "look", "travel"}
    /\ CanSend
    /\ cmds < MaxCmds
    /\ cmds' = cmds + 1
    /\ \/ /\ writer = "None"
          /\ result' = Raised("not_connected", 0)
          /\ mpc' = AfterRaise(mpc)
          /\ failed' = (mpc # "free")
          /\ UNCHANGED <<call, inflight, pending, writesAfterClose>>
       \/ /\ writer = "closed"
          /\ result' = Raised("write_failed", 0)
          /\ mpc' = AfterRaise(mpc)
          /\ failed' = (mpc # "free")
          /\ UNCHANGED <<call, inflight, pending, writesAfterClose>>
       \/ /\ writer # "None"
          /\ call' = [active |-> TRUE, output |-> 0]
          /\ inflight' = inflight + 1
          /\ \E p \in pending..(MaxChunks - buffer) :
                pending' = IF conn = "up" THEN p ELSE pending
          /\ writesAfterClose' =
                IF writer = "closed" THEN 1 ELSE writesAfterClose
          /\ UNCHANGED <<mpc, failed, result>>
    /\ UNCHANGED <<evars, svars, rvars, ivars, fvars, xvars, gvars,
                   writer, conn, buffer>>

\* the server sends one more chunk of its answer
TransportDeliver ==
    /\ conn = "up"
    /\ pending > 0
    /\ pending' = pending - 1
    /\ buffer' = buffer + 1
    /\ UNCHANGED <<evars, svars, rvars, ivars, fvars, xvars, gvars,
                   mpc, failed, writer, conn,
                   call, result, inflight, cmds, writesAfterClose>>

\* the server closes the connection, or the connection is reset
TransportDrop ==
    /\ conn = "up"
    /\ conn' \in {"eof", "reset"}
    /\ pending' = 0
    /\ UNCHANGED <<evars, svars, rvars, ivars, fvars, xvars, gvars,
                   mpc, failed, writer, call,
                   result, inflight, buffer, cmds, writesAfterClose>>

\* the read loop: reader.read(1024) hands over a chunk, output += chunk
SendAndReadChunk ==
    /\ call.active
    /\ buffer > 0
    /\ conn # "reset"
    /\ buffer' = buffer - 1
    /\ call' = [call EXCEPT !.output = @ + 1]
    /\ UNCHANGED <<evars, svars, rvars, ivars, fvars, xvars, gvars,
                   mpc, failed, writer, conn,
                   result, inflight, pending, cmds, writesAfterClose>>

\* how the read loop ends: asyncio.TimeoutError or an empty chunk keep the
\* output, ConnectionResetError and any other exception make it ""
EndCauses ==
    {c \in {"timeout", "eof", "reset", "error"} :
        /\ c = "timeout" => buffer = 0 /\ conn = "up"
        /\ c = "eof" => buffer = 0 /\ conn = "eof"
        /\ c = "reset" => conn = "reset"}

OutputAtEnd(cause, output) ==
    IF cause \in {"timeout", "eof"} THEN output ELSE 0

SendAndReadEnd ==
    /\ call.active
    /\ \E cause \in EndCauses :
         result' = Returned(cause, OutputAtEnd(cause, call.output),
                            call.output)
    /\ call' = NoCall
    /\ inflight' = inflight - 1
    /\ mpc' = AfterReturn(mpc)
    /\ UNCHANGED <<evars, svars, rvars, ivars, fvars, xvars, gvars,
                   failed, writer, conn, pending,
                   buffer, cmds, writesAfterClose>>

\* travel_rooms returns
MainTravelReturns ==
    /\ mpc = "travel"
    /\ ~call.active
    /\ mpc' = "finally"
    /\ UNCHANGED <<evars, svars, rvars, ivars, fvars, xvars, gvars,
                   failed, writer, conn, call,
                   result, inflight, pending, buffer, cmds, writesAfterClose>>

\* an exception leaves travel_rooms (a missing record, a missing rooms.json)
MainTravelRaises ==
    /\ mpc = "travel"
    /\ ~call.active
    /\ mpc' = "finally"
    /\ failed' = TRUE
    /\ UNCHANGED <<evars, svars, rvars, ivars, fvars, xvars, gvars,
                   writer, conn, call, result,
                   inflight, pending, buffer, cmds, writesAfterClose>>

\* client.close(): if self.writer: self.writer.close()
ClientClose ==
    /\ mpc \in {"free", "finally"}
    /\ ~call.active
    /\ mpc = "free" => writer = "open"
    /\ writer' = IF writer # "None" /\ FinallyCloses(failed) THEN "closed"
                  ELSE writer
    /\ mpc' = IF mpc = "free" THEN "free" ELSE "done"
    /\ UNCHANGED <<evars, svars, rvars, ivars, fvars, xvars, gvars,
                   failed, conn, call, result,
                   inflight, pending, buffer, cmds, writesAfterClose>>

-----------------------------------------------------------------------------
(* Room._extract_exits (mud_room.py, room.py)                               *)

\* An exit listing is a sequence of lines, each ended by "\n".  A line is a
\* word, then nothing, or " -", or " - " and a description that may go on
\* after a comma; "Obvious exits:" is the header line.
DirectionNames == {"North", "South", "East", "West", "Up", "Down"}
ExitWords == {"North", "Up", "north", "Portal", "FarNorth"}
ExitDescs == {"road", "gate"}
ExitLines ==
    {[word |-> w, sep |-> " - ", desc |-> d, more |-> m] :
        w \in ExitWords, d \in ExitDescs, m \in BOOLEAN}
    \cup {[word |-> w, sep |-> sep, desc |-> "", more |-> FALSE] :
            w \in ExitWords, sep \in {"", " -", " - "}}
    \cup {[word |-> "Obvious exits:", sep |-> "", desc |-> "",
           more |-> FALSE]}
ExitOutputs ==
    {<<>>} \cup {<<a>> : a \in ExitLines}
        \cup {<<a, b>> : a, b \in ExitLines}
        \cup {<<a, b, c>> : a, b, c \in ExitLines}

\* the direction name the alternation North|South|East|West|Up|Down finds
\* right before the dash: the regex is not anchored, so the end of a longer
\* word will do; "" when there is none
NameIn(word) ==
    CASE word \in DirectionNames -> word
      [] word = "FarNorth" -> "North"
      [] OTHER -> ""

\* direction[0].upper()
Initial(word) ==
    CASE word = "North" -> "N" [] word = "Up" -> "U" [] word = "north" -> "N"
      [] word = "Portal" -> "P" [] word = "FarNorth" -> "F"
      [] word = "South" -> "S" [] word = "East" -> "E" [] word = "West" -> "W"
      [] word = "Down" -> "D" [] OTHER -> "O"

\* a line up to its comma
UpToComma(line) == line.word \o line.sep \o line.desc

\* mud_room.py, exit_regex.findall: <<direction, description>> pairs.  The
\* description is [^\n,]+ after "-\s*"; when the line has none, \s* runs
\* over the line end and the next line, up to its comma, is taken instead
RECURSIVE FindAllExits(_)
FindAllExits(lines) ==
    IF lines = <<>> THEN <<>>
    ELSE LET line == lines[1] IN
         IF NameIn(line.word) = "" \/ line.sep = ""
         THEN FindAllExits(Tail(lines))
         ELSE IF line.desc # ""
         THEN <<<<NameIn(line.word), line.desc>>>>
                  \o FindAllExits(Tail(lines))
         ELSE IF Len(lines) >= 2
         THEN <<<<NameIn(line.word), UpToComma(lines[2])>>>>
                  \o FindAllExits(SubSeq(lines, 3, Len(lines)))
         ELSE IF line.sep = " - " THEN <<<<NameIn(line.word), " ">>>>
         ELSE <<>>

\* a dict in which the first of several matches of a direction stays
ExitsDictFirstWins(matches) ==
    [d \in {Initial(matches[i][1]) : i \in 1..Len(matches)} |->
        LET first == CHOOSE i \in 1..Len(matches) :
                        /\ Initial(matches[i][1]) = d
                        /\ \A j \in 1..Len(matches) :
                               Initial(matches[j][1]) = d => i <= j
        IN  [description |-> matches[first][2], room |-> NoId]]

\* mud_room.py, the dict comprehension over the matches: a later match of a
\* direction replaces the earlier one
ExitsDict(matches) ==
    [d \in {Initial(matches[i][1]) : i \in 1..Len(matches)} |->
        LET last == CHOOSE i \in 1..Len(matches) :
                       /\ Initial(matches[i][1]) = d
                       /\ \A j \in 1..Len(matches) :
                              Initial(matches[j][1]) = d => j <= i
        IN  [description |-> matches[last][2], room |-> NoId]]

\* room.py: the list of the first letters of the lines "word - ..."
RECURSIVE ExitsList(_)
ExitsList(lines) ==
    IF lines = <<>> THEN <<>>
    ELSE (IF lines[1].sep # "" /\ lines[1].word \in ExitWords
          THEN <<Initial(lines[1].word)>> ELSE <<>>)
             \o ExitsList(Tail(lines))

NoExitsDict == [d \in {} |-> [description |-> "", room |-> NoId]]
NoParsed == [cls |-> "none", matches |-> <<>>, exits |-> NoExitsDict,
             list |-> <<>>]

\* mud_room.Room(look_output, exits_output): self.exits
MudRoomExtractExits ==
    /\ exits_parsed.cls = "none"
    /\ \E lines \in ExitOutputs :
         /\ exits_output' = lines
         /\ exits_parsed' = [cls |-> "mud_room",
                             matches |-> FindAllExits(lines),
                             exits |-> ExitsDict(FindAllExits(lines)),
                             list |-> <<>>]
    /\ UNCHANGED <<evars, svars, rvars, ivars, cvars, fvars, gvars>>

\* room.Room(look_output, exits_output): self.exits
RoomExtractExits ==
    /\ exits_parsed.cls = "none"
    /\ \E lines \in ExitOutputs :
         /\ exits_output' = lines
         /\ exits_parsed' = [cls |-> "room", matches |-> <<>>,
                             exits |-> NoExitsDict,
                             list |-> ExitsList(lines)]
    /\ UNCHANGED <<evars, svars, rvars, ivars, cvars, fvars, gvars>>


IdleExits ==
    /\ exits_output = <<>>
    /\ exits_parsed = NoParsed

IdleClient ==
    /\ mpc \in {"free", "connect"}
    /\ failed = FALSE
    /\ writer = "None"
    /\ conn = "none"
    /\ call = NoCall
    /\ result = NoResult
    /\ inflight = 0
    /\ pending = 0
    /\ buffer = 0
    /\ cmds = 0
    /\ writesAfterClose = 0

-----------------------------------------------------------------------------
(* Room.to_dict, RoomMap.to_dict and the record read back (mud_room.py,     *)
(* mud_room_map.py, wotmud_player/mud_map.py)                               *)

\* two Room objects; an exit of one holds None or a reference to a Room
Objs == {"a", "b"}
Ref(o) == <<"obj", o, 0>>

GraphLooks ==
    {[lead |-> "", chunks |-> <<[code |-> COLOR_CYAN, text |-> <<"Hall">>]>>],
     [lead |-> "",
      chunks |-> <<[code |-> COLOR_CYAN, text |-> <<"Hall">>],
                   [code |-> COLOR_DEFAULT, text |-> <<"a", LF, CR, "b">>]>>],
     [lead |-> PITCH_BLACK, chunks |-> <<>>]}
GraphListings ==
    {<<>>,
     <<[word |-> "North", sep |-> " - ", desc |-> "road", more |-> FALSE]>>,
     <<[word |-> "North", sep |-> " - ", desc |-> "road", more |-> FALSE],
       [word |-> "Up", sep |-> " - ", desc |-> "gate", more |-> FALSE]>>}

NoGraphRoom == [built |-> FALSE, t |-> [lead |-> "", chunks |-> <<>>],
                lines |-> <<>>, dict |-> <<>>, id |-> NoId,
                exits |-> NoExitsDict]

\* uuid4() values drawn so far
BlackBuilt(g) == Cardinality({o \in Objs : g[o].built /\ IsBlack(g[o].id)})

\* Room.__init__ of mud_room.py
RoomInit(t, lines, n) ==
    [built |-> TRUE, t |-> t, lines |-> lines,
     dict |-> ParseInputString(t),
     id |-> GenerateRoomId("pkg", t, {}, n),
     exits |-> ExitsDict(FindAllExits(lines))]

\* exits in which the Room object itself stands for its id
ExitsToDictEmbedding(g, exits) ==
    [d \in DOMAIN exits |->
        [description |-> exits[d].description, room_id |-> exits[d].room]]

\* Room._exits_to_dict: data["room"].id if data["room"] else None
ExitsToDict(g, exits) ==
    [d \in DOMAIN exits |->
        [description |-> exits[d].description,
         room_id |-> IF exits[d].room # NoId THEN g[exits[d].room[2]].id
                     ELSE NoId]]

\* a record without the raw exit listing
RoomToDictNoListing(g, r) ==
    [id |-> r.id, features |-> ToDict(r.dict), raw_look_output |-> Raw(r.t),
     raw_exits_output |-> <<>>, exits |-> ExitsToDict(g, r.exits)]

\* Room.to_dict
RoomToDict(g, r) ==
    [id |-> r.id, features |-> ToDict(r.dict), raw_look_output |-> Raw(r.t),
     raw_exits_output |-> r.lines, exits |-> ExitsToDict(g, r.exits)]

\* RoomMap._exits_to_dict (mud_room_map.py), the value RoomMap.to_dict puts
\* under the id of the room
MapExitsToDict(g, exits) ==
    [d \in DOMAIN exits |->
        IF exits[d].room # NoId THEN g[exits[d].room[2]].id ELSE NoId]

\* the entity a record is read back to: every field as the record has it,
\* the exits with their descriptions and the ids of their targets
FromDict(rec) ==
    [id |-> rec.id, features |-> rec.features,
     raw_look_output |-> rec.raw_look_output,
     raw_exits_output |-> rec.raw_exits_output,
     exits |-> [d \in DOMAIN rec.exits |->
                  [description |-> rec.exits[d].description,
                   target |-> rec.exits[d].room_id]]]

NoRecord ==
    [id |-> NoId, features |-> EmptyDict, raw_look_output |-> "",
     raw_exits_output |-> <<>>,
     exits |-> [d \in {} |-> [description |-> "", room_id |-> NoId]]]
NoEntity ==
    [id |-> NoId, features |-> EmptyDict, raw_look_output |-> "",
     raw_exits_output |-> <<>>,
     exits |-> [d \in {} |-> [description |-> "", target |-> NoId]]]
NoSer == [op |-> "none", obj |-> "", record |-> NoRecord,
          flat |-> [d \in {} |-> NoId], entity |-> NoEntity]

\* Room(look_output, exits_output)
GraphRoomNew ==
    /\ \E o \in Objs, t \in GraphLooks, lines \in GraphListings :
         /\ ~graph[o].built
         /\ graph' = [graph EXCEPT
                        ![o] = RoomInit(t, lines, BlackBuilt(graph) + 1)]
    /\ ser' = NoSer
    /\ UNCHANGED <<evars, svars, rvars, ivars, cvars, fvars, xvars>>

\* room.map_room_to_exit(direction, other), other possibly room itself
GraphMapRoomToExit ==
    /\ \E o \in Objs, p \in Objs, direction \in {"N", "U", "north", "X"} :
         /\ graph[o].built /\ graph[p].built
         /\ graph' = [graph EXCEPT
                        ![o].exits = MapRoomToExitRoom(graph[o].exits,
                                         direction, Ref(p)).exits]
    /\ ser' = NoSer
    /\ UNCHANGED <<evars, svars, rvars, ivars, cvars, fvars, xvars>>

\* room.to_dict()
GraphToDict ==
    /\ \E o \in Objs :
         /\ graph[o].built
         /\ ser' = [NoSer EXCEPT !.op = "to_dict", !.obj = o,
                                 !.record = RoomToDict(graph, graph[o])]
    /\ UNCHANGED <<evars, svars, rvars, ivars, cvars, fvars, xvars, graph>>

\* RoomMap.to_dict(): {self.id: self._exits_to_dict()}
GraphMapToDict ==
    /\ \E o \in Objs :
         /\ graph[o].built
         /\ ser' = [NoSer EXCEPT !.op = "map_to_dict", !.obj = o,
                                 !.flat = MapExitsToDict(graph,
                                              graph[o].exits)]
    /\ UNCHANGED <<evars, svars, rvars, ivars, cvars, fvars, xvars, graph>>

\* Room.from_dict(record) on the record to_dict has just returned
GraphFromDict ==
    /\ ser.op = "to_dict"
    /\ ser' = [ser EXCEPT !.op = "from_dict",
                          !.entity = FromDict(ser.record)]
    /\ UNCHANGED <<evars, svars, rvars, ivars, cvars, fvars, xvars, graph>>

IdleGraph ==
    /\ graph = [o \in Objs |-> NoGraphRoom]
    /\ ser = NoSer

-----------------------------------------------------------------------------
(* The specifications *)

\* a rooms.json written by hand or by an earlier tool, in the format of
\* Room.to_dict(): the hall with its S exit linked and its N exit not
SeedDoc ==
    [exists |-> TRUE,
     rooms |-> [i \in {Md5("hall")} |->
                  [look |-> "hall",
                   exits |-> [d \in {"N", "S"} |->
                                IF d = "S" THEN Md5("shop") ELSE NoId]]]]

\* root creates rooms.json itself; pkg needs one to exist before it runs
InitExplorer ==
    /\ variant \in {"root", "pkg"}
    /\ loc \in Places
    /\ roomsDoc \in (IF variant = "root" THEN {NoDoc}
                     ELSE {NoDoc, EmptyDoc, SeedDoc})
    /\ stackDoc = [exists |-> FALSE, ids |-> <<>>]
    /\ room_data = EmptyRooms
    /\ path_stack = <<>>
    /\ rooms_visited = 0
    /\ room = NoRoom
    /\ pc = "idle"
    /\ exitReason = "none"
    /\ uuidCtr = 0
    /\ runs = 0
    /\ failures = 0
    /\ ioLog = <<>>
    /\ lastStep = NoStep
    /\ movesSent = 0
    /\ seenAt = {}
    /\ lastObs = NoObs
    /\ linkLog = {}
    /\ resumeLog = NoResume
    /\ docs0 = [rooms |-> roomsDoc, stack |-> stackDoc]
    /\ sent = <<>>

Init == InitExplorer /\ IdleStore /\ IdleRoom /\ IdleIdentity
    /\ IdleFeatures /\ IdleExits /\ IdleGraph
    /\ IdleClient /\ mpc = "free"

Next ==
    \/ Start
    \/ StepMove
    \/ StepBacktrack
    \/ LookupFails
    \/ Checkpoint
    \/ TransportRaises

Spec == Init /\ [][Next]_vars

\* the explorer variables while only the store or a room object is exercised
IdleExplorer ==
    /\ variant \in {"root", "pkg"}
    /\ loc = "A"
    /\ roomsDoc = NoDoc
    /\ stackDoc = [exists |-> FALSE, ids |-> <<>>]
    /\ room_data = EmptyRooms
    /\ path_stack = <<>>
    /\ rooms_visited = 0
    /\ room = NoRoom
    /\ pc = "idle"
    /\ exitReason = "none"
    /\ uuidCtr = 0
    /\ runs = 0
    /\ failures = 0
    /\ ioLog = <<>>
    /\ lastStep = NoStep
    /\ movesSent = 0
    /\ seenAt = {}
    /\ lastObs = NoObs
    /\ linkLog = {}
    /\ resumeLog = NoResume
    /\ docs0 = [rooms |-> roomsDoc, stack |-> stackDoc]
    /\ sent = <<>>

\* the DAORoom under any sequence of add_room and get_room_by_id calls
InitStore == IdleExplorer /\ IdleStore /\ IdleRoom /\ IdleIdentity
    /\ IdleFeatures /\ IdleExits /\ IdleGraph
    /\ IdleClient /\ mpc = "free"

NextStore == DaoAddRoom \/ DaoGetRoom

SpecStore == InitStore /\ [][NextStore]_vars

\* one room object under any sequence of linking calls
InitRoom == IdleExplorer /\ IdleStore /\ IdleRoom /\ IdleIdentity
    /\ IdleFeatures /\ IdleExits /\ IdleGraph
    /\ IdleClient /\ mpc = "free"

NextRoom ==
    \/ RoomNew
    \/ RoomMapRoomToExit
    \/ RoomMapRoomToOppositeExit
    \/ MapGetOpposite

\* the DAORoom from its construction on, under any sequence of calls
InitDao ==
    /\ IdleExplorer /\ NoStore /\ IdleRoom /\ IdleIdentity
    /\ IdleFeatures /\ IdleExits /\ IdleGraph
    /\ IdleClient /\ mpc = "free"

NextDao ==
    \/ DaoNew
    \/ MainLoadRooms
    \/ DaoAddRoom
    \/ DaoGetRoom
    \/ DaoGetAllRooms
    \/ DaoUpdateRoom
    \/ DaoDeleteRoom

SpecDao == InitDao /\ [][NextDao]_vars

SpecRoom == InitRoom /\ [][NextRoom]_vars

\* two Room objects built one after the other from any two transcripts
InitIdentity == IdleExplorer /\ IdleStore /\ IdleRoom /\ IdleIdentity
    /\ IdleFeatures /\ IdleExits /\ IdleGraph
    /\ IdleClient /\ mpc = "free"

NextIdentity ==
    \/ RoomBuildA
    \/ RoomBuildB
    \/ RoomRegisterA
    \/ RoomRegisterB

SpecIdentity == InitIdentity /\ [][NextIdentity]_vars

\* a caller driving one MUDClient in any order
InitClient ==
    /\ IdleExplorer /\ IdleStore /\ IdleRoom /\ IdleIdentity
    /\ IdleFeatures /\ IdleExits /\ IdleGraph
    /\ IdleClient /\ mpc = "free"

NextClient ==
    \/ ClientConnect
    \/ SendAndReadBegin
    \/ TransportDeliver
    \/ TransportDrop
    \/ SendAndReadChunk
    \/ SendAndReadEnd
    \/ ClientClose

SpecClient == InitClient /\ [][NextClient]_vars

\* main(): connect, login, look, travel_rooms, and close in the finally block
InitMain ==
    /\ IdleExplorer /\ IdleStore /\ IdleRoom /\ IdleIdentity
    /\ IdleFeatures /\ IdleExits /\ IdleGraph
    /\ IdleClient /\ mpc = "connect"

NextMain ==
    \/ ClientConnect
    \/ MainLoginPrompt
    \/ SendAndReadBegin
    \/ TransportDeliver
    \/ TransportDrop
    \/ SendAndReadChunk
    \/ SendAndReadEnd
    \/ MainTravelReturns
    \/ MainTravelRaises
    \/ ClientClose

SpecMain == InitMain /\ [][NextMain]_vars

\* one RoomFeatures object made from any input string and then queried
InitFeatures ==
    /\ IdleExplorer /\ IdleStore /\ IdleRoom /\ IdleIdentity
    /\ IdleFeatures /\ IdleExits /\ IdleGraph
    /\ IdleClient /\ mpc = "free"

NextFeatures ==
    \/ FeaturesNew
    \/ FeaturesGetByColor
    \/ FeaturesToDict
    \/ FeaturesToStr

SpecFeatures == InitFeatures /\ [][NextFeatures]_vars

\* one exit listing handed to one of the two Room classes
InitExits ==
    /\ IdleExplorer /\ IdleStore /\ IdleRoom /\ IdleIdentity
    /\ IdleFeatures /\ IdleExits /\ IdleGraph
    /\ IdleClient /\ mpc = "free"

NextExits ==
    \/ MudRoomExtractExits
    \/ RoomExtractExits

SpecExits == InitExits /\ [][NextExits]_vars

\* two Room objects built, linked to each other or to themselves, written
\* as records and read back
InitGraph ==
    /\ IdleExplorer /\ IdleStore /\ IdleRoom /\ IdleIdentity
    /\ IdleFeatures /\ IdleExits /\ IdleGraph
    /\ IdleClient /\ mpc = "free"

NextGraph ==
    \/ GraphRoomNew
    \/ GraphMapRoomToExit
    \/ GraphToDict
    \/ GraphMapToDict
    \/ GraphFromDict

SpecGraph == InitGraph /\ [][NextGraph]_vars

-----------------------------------------------------------------------------
(* Properties of the explorer *)

NormalEnd == pc = "ended" /\ exitReason \in {"Exhausted", "BudgetReached"}
FailedEnd == pc = "ended" /\ exitReason \in {"TransportFailed", "LookupFailed"}

\* the termination measure of the loop: a move uses one unit of budget and
\* adds one stack entry, a pop removes one stack entry
Measure == 2 * (MAX_ROOMS - rooms_visited) + Len(path_stack)

\* every loop iteration strictly decreases the measure
LoopMeasureDecreases ==
    [][(pc = "loop" /\ pc' = "loop") => Measure' < Measure]_vars

\* C1: with every transport exchange returning, an invocation that has
\* loaded its store ends only as Exhausted or BudgetReached.
C1_EndsExhaustedOrBudget ==
    (pc = "ended" /\ exitReason \notin {"TransportFailed", "StoreUnavailable"})
        => exitReason \in {"Exhausted", "BudgetReached"}

\* C2: the visited count and the number of movement commands sent never
\* exceed the budget, and the loop exits only with an empty stack or with the
\* visited count equal to the budget.
C2_BudgetBound ==
    /\ rooms_visited <= MAX_ROOMS
    /\ movesSent <= MAX_ROOMS
    /\ movesSent = rooms_visited
    /\ NormalEnd => (path_stack = <<>> \/ rooms_visited = MAX_ROOMS)

C2_Witness ==
    /\ NormalEnd
    /\ exitReason = "BudgetReached"
    /\ movesSent = MAX_ROOMS
    /\ path_stack # <<>>

IsPrefix(a, b) == Len(a) <= Len(b) /\ SubSeq(b, 1, Len(a)) = a

ResumeChecked == pc \in {"loop", "ended"} /\ exitReason # "StoreUnavailable"

\* C3: a persisted stack whose last id differs from the first observed id is
\* discarded whole, so the stack entering the loop is exactly the observed
\* id; a persisted stack whose last id is the observed id is kept below the
\* pushed id; and inside the loop the stack only grows or shrinks by one
\* entry (the check is not repeated).
C3_ResumeCheck ==
    /\ [](ResumeChecked =>
            LET r == resumeLog IN
            /\ (r.persisted # <<>> /\ Last(r.persisted) # r.observed)
                  => r.entering = <<r.observed>>
            /\ (r.persisted # <<>> /\ Last(r.persisted) = r.observed)
                  => (IsPrefix(r.persisted, r.entering)
                      /\ Last(r.entering) = r.observed)
            /\ r.persisted = docs0.stack.ids)
    /\ [][(pc = "loop" /\ pc' = "loop") =>
            (path_stack' = Front(path_stack)
             \/ (path_stack' # <<>> /\ Front(path_stack') = path_stack))]_vars

C3_WitnessDiscard ==
    /\ pc = "loop"
    /\ Len(resumeLog.persisted) >= 2
    /\ Last(resumeLog.persisted) # resumeLog.observed
    /\ path_stack = <<resumeLog.observed>>

\* C4: a movement command is never sent for a direction that has a recorded
\* target in the stored exits of the room at the top of the stack, and a pop
\* happens only when no listed direction lacks a target there.
C4_NeverMovesLinkedExit ==
    /\ lastStep.kind = "move" =>
          (lastStep.dir \in lastStep.listed /\ lastStep.dir \notin lastStep.linked)
    /\ lastStep.kind = "pop" => lastStep.listed \subseteq lastStep.linked

\* C5: every link the explorer wrote (target `to` for direction `dir` on
\* `from`) was written for a movement command sent while the session was in
\* a place observed as `from`.
C5_LinkOnlyByTraversal ==
    \A l \in linkLog : <<l.place, l.from>> \in seenAt

CountOf(log, x) == Cardinality({i \in 1..Len(log) : log[i] = x})

\* C6 as stated: rooms.json is not written inside the loop, and a completed
\* invocation has written stack.json and then rooms.json, once each.
C6_StoreWrittenOnceAfterStack ==
    /\ pc = "loop" => CountOf(ioLog, "rooms") = 0
    /\ NormalEnd => ioLog = <<"stack", "rooms">>

Contains(rooms, part) ==
    \A i \in DOMAIN part : i \in DOMAIN rooms /\ rooms[i] = part[i]

\* C6 as amended: root writes rooms.json once, after the loop and before
\* stack.json; pkg writes rooms.json at each registration of a new room (the
\* registered records are in the document while the loop runs) and writes
\* only stack.json after the loop.
C6_StoreWritePoints ==
    /\ variant = "root" =>
          /\ pc = "loop" => (ioLog = <<>> /\ roomsDoc = docs0.rooms)
          /\ NormalEnd => (ioLog = <<"rooms", "stack">>
                           /\ roomsDoc.rooms = room_data)
    /\ variant = "pkg" =>
          /\ pc = "loop" =>
                /\ CountOf(ioLog, "stack") = 0
                /\ Len(ioLog) <= rooms_visited + 1
                /\ Contains(roomsDoc.rooms, room_data)
                /\ (ioLog = <<>>) = (roomsDoc = docs0.rooms)
          /\ NormalEnd =>
                /\ CountOf(ioLog, "stack") = 1
                /\ Last(ioLog) = "stack"
    /\ NormalEnd => stackDoc.ids = path_stack

C6_WitnessRoot == variant = "root" /\ NormalEnd /\ rooms_visited = MAX_ROOMS

C6_WitnessPkg ==
    variant = "pkg" /\ pc = "loop" /\ CountOf(ioLog, "rooms") >= 2

C6_Witness == C6_WitnessRoot \/ C6_WitnessPkg

\* C7 as stated: an invocation that fails inside the loop leaves both
\* documents as it found them.
C7_CrashKeepsBothDocs ==
    FailedEnd => (roomsDoc = docs0.rooms /\ stackDoc = docs0.stack)

\* C7 as amended: a failure inside the loop leaves stack.json as it was
\* found; root also leaves rooms.json as it was found, while pkg has already
\* written every room it registered.
C7_CrashKeepsStackDoc ==
    FailedEnd =>
        /\ stackDoc = docs0.stack
        /\ variant = "root" => roomsDoc = docs0.rooms
        /\ variant = "pkg" =>
              \A i \in DOMAIN room_data : i \in DOMAIN roomsDoc.rooms

C7_Witness ==
    /\ FailedEnd
    /\ variant = "root"
    /\ rooms_visited >= 1
    /\ DOMAIN room_data # DOMAIN roomsDoc.rooms

-----------------------------------------------------------------------------
(* Properties of the store *)

\* C8 as stated: add_room answers false for an id it holds and true for a
\* new one; the held record is unchanged, the new one is retrievable, and
\* the dataset holds for each id the first record inserted.
C8_InsertAnswersBoolean ==
    /\ (daoCall.op = "add" /\ daoCall.present) =>
          (daoCall.result = "False" /\ dao_rooms = daoCall.before)
    /\ (daoCall.op = "add" /\ ~daoCall.present) =>
          (daoCall.result = "True"
           /\ GetRoomById(dao_rooms, daoCall.id) =
                 [found |-> TRUE, rec |-> daoCall.rec])
    /\ dao_rooms = daoFirst

\* C8 as amended: add_room never answers true or false - it ends without a
\* value (and the root DAORoom raises ValueError for an id it holds); for an
\* id it holds the dataset and the document are unchanged, a new id becomes
\* retrievable, and the dataset holds for each id the first record inserted.
C8_InsertKeepsFirst ==
    /\ (daoCall.op = "add" /\ daoCall.present) =>
          /\ daoCall.result = (IF variant = "root" THEN "ValueError" ELSE "None")
          /\ dao_rooms = daoCall.before
          /\ daoDoc = daoCall.docBefore
    /\ (daoCall.op = "add" /\ ~daoCall.present) =>
          /\ daoCall.result = "None"
          /\ GetRoomById(dao_rooms, daoCall.id) =
                [found |-> TRUE, rec |-> daoCall.rec]
          /\ DOMAIN dao_rooms = DOMAIN daoCall.before \cup {daoCall.id}
          /\ Contains(dao_rooms, daoCall.before)
          /\ daoDoc.rooms = dao_rooms
    /\ dao_rooms = daoFirst

C8_Witness ==
    /\ daoCall.op = "add"
    /\ daoCall.present
    /\ daoCall.rec # dao_rooms[daoCall.id]
    /\ Cardinality(DOMAIN dao_rooms) >= 2

-----------------------------------------------------------------------------
(* Properties of the room object *)

\* C9: linking a direction whose code is not a key of exits fails with the
\* invalid-exit error and changes nothing; linking a key sets that exit's
\* target and changes nothing else.
C9_LinkOnlyExistingKey ==
    entCall.op = "link" =>
        LET k == FirstUpper(entCall.direction) IN
        IF k \in DOMAIN entCall.before
        THEN /\ entCall.result = "None"
             /\ ent.exits = [entCall.before EXCEPT ![k].room = entCall.target]
        ELSE /\ entCall.result = "ValueError"
             /\ ent.exits = entCall.before

\* C10: the keys of exits stay the keys parsed at construction.
C10_KeysFixed == DOMAIN ent.exits = ent.keys0

-----------------------------------------------------------------------------
(* Properties of the reciprocal-direction tables *)

\* the direction link_opposite ends up linking, as the call recorded it
C11_Linked ==
    {k \in DOMAIN ent.exits :
        k \notin DOMAIN entCall.before \/ ent.exits[k] # entCall.before[k]}

\* C11: link_opposite links the reciprocal direction of the table N<->S,
\* E<->W, U<->D; the table is defined for all six codes and is an involution
\* wherever the code looks a reciprocal up (RoomMap._opposite_exit and
\* MUDMap.get_opposite); a direction outside the six codes fails with
\* ValueError and changes no exit.
C11_OppositeTable ==
    /\ entCall.op = "link_opposite" =>
          IF Upper(entCall.direction) \in Dirs6
          THEN /\ entCall.result = "None"
               /\ OppositeExit(OppositeExit(entCall.direction))
                     = Upper(entCall.direction)
               /\ C11_Linked \subseteq {OppositeExit(entCall.direction)}
               /\ ent.exits[OppositeExit(entCall.direction)].room
                     = entCall.target
          ELSE /\ entCall.result = "ValueError"
               /\ ent.exits = entCall.before
    /\ entCall.op = "get_opposite" /\ entCall.direction \in Dirs6 =>
          /\ entCall.result \in Dirs6
          /\ GetOpposite(entCall.result) = entCall.direction
    /\ entCall.op = "get_opposite" /\ entCall.direction \notin Dirs6 =>
          entCall.result = NoneTok

\* the same property of RoomMap.map_room_to_opposite_exit alone
C11_RoomMapOnly ==
    entCall.op = "link_opposite" =>
        IF Upper(entCall.direction) \in Dirs6
        THEN /\ entCall.result = "None"
             /\ OppositeExit(OppositeExit(entCall.direction))
                   = Upper(entCall.direction)
             /\ ent.exits[OppositeExit(entCall.direction)].room
                   = entCall.target
        ELSE /\ entCall.result = "ValueError"
             /\ ent.exits = entCall.before

-----------------------------------------------------------------------------
(* Properties of the room id *)

IsSentinel(r) == Raw(r.t) = PITCH_BLACK

\* C12: two Rooms built from look transcripts that are not the pitch-black
\* text and whose features render to the same string have the same id,
\* whatever their exit listings are and whatever was built before.
C12_SameRenderingSameId ==
    (/\ roomA.built /\ roomB.built
     /\ ~IsSentinel(roomA) /\ ~IsSentinel(roomB)
     /\ Rendering(variant, roomA.t) = Rendering(variant, roomB.t))
    => roomA.id = roomB.id

\* two different transcripts with one rendering, different exit listings
C12_Witness ==
    /\ variant = "pkg"
    /\ roomA.built /\ roomB.built
    /\ ~IsSentinel(roomA) /\ ~IsSentinel(roomB)
    /\ Raw(roomA.t) # Raw(roomB.t)
    /\ roomA.listing # roomB.listing
    /\ Rendering(variant, roomA.t) = Rendering(variant, roomB.t)
    /\ Rendering(variant, roomA.t) = "name : Hall"
    /\ roomA.id = roomB.id

ContainsSentinel(r) == r.t.lead = PITCH_BLACK /\ r.t.chunks # <<>>

BlackRecords == {id \in DOMAIN dao_rooms : IsBlack(id)}

\* C13: a Room whose look transcript is exactly the pitch-black text gets an
\* id with the black_ prefix that no other Room has, so every such Room is
\* registered as a record of its own; a transcript that only contains the
\* pitch-black text is hashed like any other.
C13_BlackIdsFresh ==
    /\ \A r \in {roomA, roomB} :
          r.built =>
            /\ IsSentinel(r) <=> IsBlack(r.id)
            /\ ~IsSentinel(r) => r.id = Md5(Rendering(variant, r.t))
            /\ r.registered => r.id \in DOMAIN dao_rooms
    /\ (roomA.built /\ roomB.built /\ IsSentinel(roomA) /\ IsSentinel(roomB))
          => roomA.id # roomB.id
    /\ Cardinality(BlackRecords)
          = Cardinality({r \in {roomA, roomB} :
                            r.registered /\ IsSentinel(r)})

\* two pitch-black Rooms, both registered, and the store holds two records
C13_Witness ==
    /\ IsSentinel(roomA) /\ IsSentinel(roomB)
    /\ roomA.registered /\ roomB.registered
    /\ roomA.id # roomB.id
    /\ Cardinality(BlackRecords) = 2

\* a transcript that contains the pitch-black text and more is hashed
C13_WitnessContains ==
    /\ roomB.built /\ ContainsSentinel(roomB) /\ ~IsBlack(roomB.id)

-----------------------------------------------------------------------------
(* Properties of main() and of the client *)

\* C14: when main() has ended - after a normal run, after a failed connect
\* or login, or after an exception out of travel_rooms - the connection is
\* closed if it was opened, and nothing was written after the close.
C14_ClosedOnEveryPath ==
    mpc = "done" =>
        /\ writer # "open"
        /\ (conn # "none") => writer = "closed"
        /\ writesAfterClose = 0
        /\ ~call.active

\* main() ended by an exception out of travel_rooms, connection closed
C14_Witness ==
    /\ mpc = "done" /\ failed /\ writer = "closed" /\ cmds >= 3

\* main() ended by a failed connect: nothing was opened, nothing to close
C14_WitnessNotOpened ==
    /\ mpc = "done" /\ failed /\ writer = "None" /\ conn = "none"

\* C15: at most one send_and_read is in progress at any time, however the
\* steps of main() and the arrival of response chunks interleave.
C15_OneInFlight ==
    /\ inflight <= 1
    /\ inflight = (IF call.active THEN 1 ELSE 0)

\* a command is sent while chunks of the answer to the previous command are
\* still on their way: the previous call has returned by its idle timeout
C15_Witness ==
    /\ mpc = "travel" /\ call.active /\ inflight = 1
    /\ result.cause = "timeout" /\ cmds >= 3 /\ buffer > 0

\* C16: send_and_read returns "" on any error - a reset connection, any
\* other error of the exchange, a call made while not connected - and never
\* raises; on idle timeout or a closed connection it returns everything
\* accumulated.
C16_EmptyOnAnyError ==
    result.kind # "none" =>
        /\ result.kind = "returned"
        /\ result.cause \in {"timeout", "eof"} =>
              result.output = result.accumulated
        /\ result.cause \notin {"timeout", "eof"} => result.output = 0

\* C16 (amended): an error while reading the answer makes send_and_read
\* return ""; idle timeout and a closed connection return everything
\* accumulated; a call made while not connected raises, and so does a
\* failing write.
C16_EmptyOnReadError ==
    result.kind # "none" =>
        /\ result.cause \in {"timeout", "eof"} =>
              result.kind = "returned" /\ result.output = result.accumulated
        /\ result.cause \in {"reset", "error"} =>
              result.kind = "returned" /\ result.output = 0
        /\ result.cause \in {"not_connected", "write_failed"} =>
              result.kind = "raised"
        /\ result.kind = "raised" =>
              result.cause \in {"not_connected", "write_failed"}

\* partial output thrown away by a reset
C16_Witness ==
    /\ result.kind = "returned" /\ result.cause = "reset"
    /\ result.accumulated > 0 /\ result.output = 0

\* a call made before connect()
C16_WitnessNotConnected ==
    /\ result.kind = "raised" /\ result.cause = "not_connected"

-----------------------------------------------------------------------------
(* Properties of observing *)

-----------------------------------------------------------------------------
(* Properties of loading, updating and filtering the store *)

\* C18: loading the store fails when rooms.json does not exist, and then no
\* collection - empty or partial - is handed to the caller.
C18_LoadFailsWhenMissing ==
    (daoCall.op \in {"new", "load_rooms"} /\ ~daoCall.docBefore.exists) =>
        /\ daoCall.result = "FileNotFoundError"
        /\ daoInst \notin {"ready", "list"}

\* C19: update_room and delete_room on an id the store does not hold fail
\* with KeyError and leave the dataset and rooms.json unchanged; update_room
\* on an id it holds changes that record and no other, in the dataset and
\* in rooms.json.
C19_UpdateDeleteNotFound ==
    /\ (daoCall.op \in {"update", "delete"} /\ ~daoCall.present) =>
          /\ daoCall.result = "KeyError"
          /\ dao_rooms = daoCall.before
          /\ daoDoc = daoCall.docBefore
    /\ (daoCall.op = "update" /\ daoCall.present) =>
          /\ daoCall.result = "None"
          /\ DOMAIN dao_rooms = DOMAIN daoCall.before
          /\ \A i \in DOMAIN dao_rooms \ {daoCall.id} :
                dao_rooms[i] = daoCall.before[i]
          /\ dao_rooms[daoCall.id]
                = DictUpdate(daoCall.before[daoCall.id], daoCall.rec)
          /\ \A i \in DOMAIN daoCall.docBefore.rooms \ {daoCall.id} :
                /\ i \in DOMAIN daoDoc.rooms
                /\ daoDoc.rooms[i] = daoCall.docBefore.rooms[i]

\* the part of C19 that concerns the dataset in memory
C19_InMemory ==
    /\ (daoCall.op \in {"update", "delete"} /\ ~daoCall.present) =>
          /\ daoCall.result = "KeyError"
          /\ dao_rooms = daoCall.before
          /\ daoDoc = daoCall.docBefore
    /\ (daoCall.op = "update" /\ daoCall.present) =>
          /\ daoCall.result = "None"
          /\ DOMAIN dao_rooms = DOMAIN daoCall.before
          /\ \A i \in DOMAIN dao_rooms \ {daoCall.id} :
                dao_rooms[i] = daoCall.before[i]
          /\ dao_rooms[daoCall.id]
                = DictUpdate(daoCall.before[daoCall.id], daoCall.rec)
          /\ daoDoc.rooms = dao_rooms

\* C20: the view of the store without pitch-black rooms (get_all_rooms of
\* the packaged DAORoom) never holds an id with the black_ prefix, whatever
\* was loaded, added, updated or deleted before.
C20_ViewHasNoBlackId ==
    (variant = "pkg" /\ daoCall.op = "all") =>
        \A i \in DOMAIN daoCall.before : ~IsBlack(i)

\* the filter as far as it goes: right after the load the view has no
\* pitch-black room
C20_LoadFilters ==
    (variant = "pkg" /\ daoCall.op = "new" /\ daoInst = "ready"
     /\ daoCall.before = EmptyRooms) =>
        \A i \in DOMAIN dao_rooms : ~IsBlack(i)

-----------------------------------------------------------------------------
(* Properties of RoomFeatures *)

\* C21: the parser starts in the description category, so a plain-text
\* input, one with no colour code in it, comes out as a feature set whose
\* only entry is that text under description.
C21_PlainTextIsDescription ==
    (feat.made /\ feat.t.lead # "" /\ feat.t.chunks = <<>>)
        => feat.dict = <<<<COLOR_DEFAULT, <<feat.t.lead>>>>>>

\* the category the claims give a code: its own when it is one of the four
\* recognised codes, description otherwise
Category(code) ==
    IF code \in {COLOR_CYAN, COLOR_GREEN, COLOR_YELLOW, COLOR_DEFAULT}
    THEN code ELSE COLOR_DEFAULT

\* the entries the runs of one category hold, run after run
RECURSIVE EntriesOf(_, _)
EntriesOf(cs, color) ==
    IF cs = <<>> THEN <<>>
    ELSE (IF Category(cs[1].code) = color
          THEN TextSegments(color, cs[1].text) ELSE <<>>)
             \o EntriesOf(Tail(cs), color)

\* C22: last code wins.  The entries under a category are those of the runs
\* whose own code selects it, so a code that is followed at once by another
\* code adds nothing anywhere and has no hold on the text after the second
\* code; a code outside the four recognised ones selects description.
C22_LastCodeWins ==
    feat.made =>
        \A color \in AllCodes :
            GetFeaturesByColor(feat.dict, color)
                = EntriesOf(feat.t.chunks, color)

C22_Witness ==
    /\ feat.made
    /\ Len(feat.t.chunks) = 2
    /\ feat.t.chunks[1] = [code |-> COLOR_GREEN, text |-> <<>>]
    /\ feat.t.chunks[2] = [code |-> COLOR_YELLOW, text |-> <<"Hall">>]
    /\ featCall.op = "get" /\ featCall.color = COLOR_GREEN
    /\ featCall.segs = <<>>
    /\ GetFeaturesByColor(feat.dict, COLOR_YELLOW) = <<"Hall">>

\* the words of a text
Words(text) == SelectSeq(text, LAMBDA tok : ~IsSpace(tok))

\* every line break of the text is the wrap "\n\r"
OnlyWraps(text) ==
    \A i \in 1..Len(text) :
        /\ text[i] = LF => (i < Len(text) /\ text[i + 1] = CR)
        /\ text[i] = CR => (i > 1 /\ text[i - 1] = LF)

\* the words are set apart by line breaks alone
OnlyLines(text) == \A i \in 1..Len(text) : text[i] # SP

SameCategory(cs) ==
    \A i, j \in 1..Len(cs) : Category(cs[i].code) = Category(cs[j].code)

\* C23: in the description category prose wrapped by "\n\r" becomes one
\* entry, in the other categories each line is an entry of its own; runs of
\* white space add no entry, and the entries of a category stand in the
\* order in which the input has them.
C23_LineBreaksByCategory ==
    feat.made =>
        LET cs == feat.t.chunks
            solid == SelectSeq(cs, LAMBDA c : ~Blank(c.text))
        IN  /\ (Len(cs) = 1 /\ solid # <<>>
                    /\ Category(cs[1].code) = COLOR_DEFAULT
                    /\ OnlyWraps(cs[1].text))
                 => Len(GetFeaturesByColor(feat.dict, COLOR_DEFAULT)) = 1
            /\ (Len(cs) = 1 /\ solid # <<>>
                    /\ Category(cs[1].code) # COLOR_DEFAULT
                    /\ OnlyLines(cs[1].text))
                 => GetFeaturesByColor(feat.dict, cs[1].code)
                        = Words(cs[1].text)
            /\ solid = <<>> => feat.dict = <<>>
            /\ Len(feat.dict) <= Len(solid)
            /\ (Len(solid) = 2 /\ SameCategory(solid))
                 => LET color == Category(solid[1].code)
                    IN  GetFeaturesByColor(feat.dict, color)
                            = TextSegments(color, solid[1].text)
                                  \o TextSegments(color, solid[2].text)

C23_Witness ==
    /\ feat.made
    /\ feat.t.chunks
           = <<[code |-> COLOR_DEFAULT, text |-> <<"a", LF, CR, "b">>],
               [code |-> COLOR_YELLOW, text |-> <<"a", LF, CR, "b">>]>>
    /\ feat.dict = <<<<COLOR_DEFAULT, <<"a b">>>>,
                     <<COLOR_YELLOW, <<"a", "b">>>>>>

\* C24: the dictionary form of the features always holds the input string,
\* unchanged, under "raw".
C24_RawRetained ==
    featCall.op = "to_dict" =>
        /\ "raw" \in DOMAIN featCall.names
        /\ featCall.names["raw"] = Raw(feat.t)

\* C25: a room as the server shows it (title in the name colour, reset,
\* wrapped prose, a green code and a yellow code side by side, mob lines,
\* reset, trailing text) parses to the title as the name, no items, one mob
\* per line and exactly one description entry.
C25_RoomShapeParsed ==
    (feat.made /\ feat.t \in RoomShaped) =>
        /\ GetFeaturesByColor(feat.dict, COLOR_CYAN)
               = <<Flatten(feat.t.chunks[1].text)>>
        /\ GetFeaturesByColor(feat.dict, COLOR_GREEN) = <<>>
        /\ GetFeaturesByColor(feat.dict, COLOR_YELLOW)
               = Words(feat.t.chunks[4].text)
        /\ Len(GetFeaturesByColor(feat.dict, COLOR_DEFAULT)) = 1

-----------------------------------------------------------------------------
(* Properties of the exit parser *)

\* the keys of the exits a Room holds
ParsedKeys ==
    IF exits_parsed.cls = "room"
    THEN {exits_parsed.list[i] : i \in 1..Len(exits_parsed.list)}
    ELSE DOMAIN exits_parsed.exits

\* a line of one of the six direction words, a dash and a description
WellFormed(line) ==
    line.word \in DirectionNames /\ line.sep # "" /\ line.desc # ""

\* C26: the exits parsed from any listing are well-formed.  Every key is one
\* of N, S, E, W, U, D, every entry has no target, and every key comes from
\* a line of a direction word, a dash and a description: other lines add no
\* entry, and a listing without such a line gives no exits at all.
C26_ExitsWellFormed ==
    exits_parsed.cls # "none" =>
        /\ ParsedKeys \subseteq Dirs6
        /\ \A d \in DOMAIN exits_parsed.exits :
               exits_parsed.exits[d].room = NoId
        /\ \A d \in ParsedKeys :
               \E i \in 1..Len(exits_output) :
                   /\ WellFormed(exits_output[i])
                   /\ Initial(exits_output[i].word) = d

\* the lines the parser resolves to a key, when no line is cut short
ResolveTo(d) ==
    {i \in 1..Len(exits_output) :
        /\ NameIn(exits_output[i].word) # ""
        /\ Initial(NameIn(exits_output[i].word)) = d
        /\ exits_output[i].sep # ""}

-----------------------------------------------------------------------------
(* The explorer, end to end *)

\* the invocation found the hall in the store with its S exit linked and its
\* N exit not, and observed the session to be in the hall
SeededInHall ==
    /\ docs0.rooms.exists
    /\ Md5("hall") \in DOMAIN docs0.rooms.rooms
    /\ HasTarget(docs0.rooms.rooms[Md5("hall")], "S")
    /\ ~HasTarget(docs0.rooms.rooms[Md5("hall")], "N")
    /\ resumeLog.observed = Md5("hall")

\* the first visit of the invocation has just been made, and no read of
\* the session has failed
FirstVisitMade ==
    /\ pc \in {"loop", "ended"} /\ rooms_visited = 1
    /\ lastStep.kind = "move"
    /\ failures = 0

\* C30: an invocation that starts in a stored location whose N exit is
\* untraversed and whose S exit is linked makes its one visit along N, never
\* along S; the N exit of that location then has a target and the stack has
\* grown by exactly one entry.
C30_OneVisitAlongN ==
    (SeededInHall /\ FirstVisitMade) =>
        /\ lastStep.dir = "N"
        /\ lastStep.top = Md5("hall")
        /\ HasTarget(room_data[Md5("hall")], "N")
        /\ Len(path_stack) = Len(resumeLog.entering) + 1

\* the same, of the root explorer alone
C30_RootOneVisitAlongN == variant = "root" => C30_OneVisitAlongN

C30_RootWitness ==
    /\ variant = "root" /\ SeededInHall /\ FirstVisitMade
    /\ lastStep.dir = "N"

-----------------------------------------------------------------------------
(* Properties of the records *)

IsIdOrNull(v) == v[1] \in {"md5", "black_", "none"}

\* the id of the Room an exit holds, None when it holds none
TargetId(exit) ==
    IF exit.room = NoId THEN NoId ELSE graph[exit.room[2]].id

\* C28: the record of a room gives each exit the id of its neighbour, or
\* null when the exit is not linked, never the neighbour itself; this is so
\* of Room.to_dict and of RoomMap.to_dict, and the call returns such a record
\* also when two rooms are linked to each other or a room to itself.
C28_RecordIsFlat ==
    /\ ser.op = "to_dict" =>
         LET exits == graph[ser.obj].exits IN
         /\ DOMAIN ser.record.exits = DOMAIN exits
         /\ \A d \in DOMAIN exits :
              /\ IsIdOrNull(ser.record.exits[d].room_id)
              /\ ser.record.exits[d].room_id = TargetId(exits[d])
    /\ ser.op = "map_to_dict" =>
         LET exits == graph[ser.obj].exits IN
         /\ DOMAIN ser.flat = DOMAIN exits
         /\ \A d \in DOMAIN exits :
              /\ IsIdOrNull(ser.flat[d])
              /\ ser.flat[d] = TargetId(exits[d])

\* the two rooms are linked to each other, and the first to itself as well
C28_Witness ==
    /\ ser.op = "to_dict" /\ ser.obj = "a"
    /\ DOMAIN graph["a"].exits = {"N", "U"}
    /\ graph["a"].exits["N"].room = Ref("b")
    /\ graph["a"].exits["U"].room = Ref("a")
    /\ "N" \in DOMAIN graph["b"].exits
    /\ graph["b"].exits["N"].room = Ref("a")
    /\ ser.record.exits["N"].room_id = graph["b"].id
    /\ ser.record.exits["U"].room_id = graph["a"].id

-----------------------------------------------------------------------------
(* The explorer, step by step *)

\* this step is a forward iteration of the loop: a movement command is sent
MoveStep == movesSent' = movesSent + 1

\* this step is a backtrack: the loop goes on with a shorter stack
PopStep == pc = "loop" /\ pc' = "loop" /\ Len(path_stack') < Len(path_stack)

\* what a forward step along d from the stack top T that observes X leaves
\* behind
ForwardStepEffects ==
    LET T == Last(path_stack)
        d == lastStep'.dir
        X == lastStep'.seen
    IN  /\ lastStep'.top = T
        /\ X = lastObs'.room.id
        /\ X \in DOMAIN room_data'
        /\ (X \in DOMAIN room_data /\ X # T) => room_data'[X] = room_data[X]
        /\ (X \in DOMAIN room_data /\ X = T) =>
              /\ room_data'[X].look = room_data[X].look
              /\ \A e \in DOMAIN room_data[X].exits \ {d} :
                    room_data'[X].exits[e] = room_data[X].exits[e]
        /\ X \notin DOMAIN room_data => room_data'[X].look = lastObs'.room.look
        /\ HasTarget(room_data'[T], d)
        /\ room_data'[T].exits[d] = X
        /\ path_stack' = Append(path_stack, X)
        /\ rooms_visited' = rooms_visited + 1

\* C31: after the explorer has chosen the untraversed direction d at the
\* stack top T, moved and observed X, X is in the dataset (inserted if new,
\* its record untouched if known), T's stored exit d has target X, X is the
\* new last entry of the stack above the unchanged earlier entries, and the
\* visited count has grown by exactly one.
C31_ForwardStep == [][MoveStep => ForwardStepEffects]_vars

\* the same, of the root explorer alone
C31_RootForwardStep ==
    [][(variant = "root" /\ MoveStep) => ForwardStepEffects]_vars

\* the root explorer has walked back into a room it already knew
C31_RootWitness ==
    /\ variant = "root" /\ pc = "loop"
    /\ lastStep.kind = "move"
    /\ lastStep.seen # lastStep.top
    /\ Len(path_stack) >= 3
    /\ lastStep.seen = path_stack[Len(path_stack) - 2]
    /\ room_data[lastStep.top].exits[lastStep.dir] = lastStep.seen

\* the loop is about to run an iteration and finds no untraversed exit at
\* the record of the stack's last id
NoUntraversed ==
    /\ pc = "loop" /\ LoopCond
    /\ Last(path_stack) \in DOMAIN room_data
    /\ Untraversed(variant, room, room_data[Last(path_stack)]) = {}

\* C32: when the loop finds no untraversed exit at the stack top, the step
\* removes exactly the last stack entry and changes nothing else: no command
\* is sent and the session stays where it is, the dataset and both documents
\* are unchanged, and so is the visited count; and the stack gets shorter
\* inside the loop in no other way.
C32_BacktrackOnlyPops ==
    [][(NoUntraversed \/ PopStep) =>
          /\ path_stack' = Front(path_stack)
          /\ sent' = sent /\ movesSent' = movesSent /\ loc' = loc
          /\ room_data' = room_data
          /\ roomsDoc' = roomsDoc /\ stackDoc' = stackDoc
          /\ ioLog' = ioLog
          /\ rooms_visited' = rooms_visited
          /\ room' = room /\ uuidCtr' = uuidCtr]_vars

\* a pop has just been made below a stack that is not yet empty, and since
\* the first observation of the invocation nothing has been sent
C32_Witness ==
    /\ pc = "loop"
    /\ lastStep.kind = "pop"
    /\ lastStep.from = loc
    /\ path_stack # <<>>
    /\ Len(path_stack) < Len(resumeLog.entering)
    /\ sent = GetCurrentRoomCommands
    /\ room_data # EmptyRooms

\* the loop is running and the id on top of the stack does not stand for
\* the place the session is in
Desynced ==
    /\ pc = "loop" /\ path_stack # <<>>
    /\ ~Tracks(Last(path_stack), loc)

\* C33: a backtrack leaves the session where it is while the stack top
\* becomes the entry below, so after a backtrack onto the id of another
\* place the explorer is desynchronised; the next movement command is then
\* carried out from the place the session is really in, and the root
\* explorer records the room it observes as the target of the chosen exit of
\* the stack top. With every read succeeding this is the only way the
\* explorer gets desynchronised.
C33_BacktrackDesynchronises ==
    /\ [][(PopStep /\ path_stack' # <<>> /\ ~Tracks(Last(path_stack'), loc))
            => Desynced']_vars
    /\ [][(Desynced /\ MoveStep) =>
            /\ loc' = MoveFrom(loc, lastStep'.dir)
            /\ lastStep'.top = Last(path_stack)
            /\ variant = "root" =>
                 room_data'[Last(path_stack)].exits[lastStep'.dir]
                    = lastObs'.room.id]_vars
    /\ []((failures = 0 /\ Desynced) => lastStep.kind = "pop")

\* the root explorer popped onto the id of the pitch-black room while the
\* session was in the hall, sent its next move from the hall, and recorded
\* what it then saw as the target of that exit of the pitch-black room
C33_Witness ==
    /\ variant = "root"
    /\ failures = 0
    /\ lastStep.kind = "move"
    /\ lastStep.prev = "pop"
    /\ ~Tracks(lastStep.top, lastStep.from)
    /\ loc = MoveFrom(lastStep.from, lastStep.dir)
    /\ HasTarget(room_data[lastStep.top], lastStep.dir)
    /\ room_data[lastStep.top].exits[lastStep.dir] = lastStep.seen
    /\ \E l \in linkLog :
         /\ l.from = lastStep.top /\ l.dir = lastStep.dir
         /\ l.place = lastStep.from

-----------------------------------------------------------------------------
(* The commands of the explorer *)

LowercaseTokens == {"n", "s"}

Queries(s) == Cardinality({i \in 1..Len(s) : s[i] \in {"look", "exits"}})

Moves(s) == Cardinality({i \in 1..Len(s) : s[i] \in LowercaseTokens})

\* "look", "exits", and then for each of the v visits a lowercase direction
\* token followed by "look", "exits"
ProtocolOf(s, v) ==
    /\ Len(s) = 2 + 3 * v
    /\ s[1] = "look" /\ s[2] = "exits"
    /\ \A k \in 1..v :
         /\ s[3 * k] \in LowercaseTokens
         /\ s[3 * k + 1] = "look"
         /\ s[3 * k + 2] = "exits"

\* C34: the commands an invocation has sent are, at every point of the loop
\* and at its end, "look" and "exits" for the first observation and then,
\* for each visit, the lowercase token of the chosen exit directly followed
\* by "look" and "exits", and nothing else: 2*(v+1) queries and v moves for
\* v visits. A forward step adds exactly the token of its exit and the two
\* queries. An invocation that ends on a failed write of a movement command
\* has sent that one command more.
C34_CommandProtocol ==
    /\ []((pc = "loop" \/ NormalEnd \/ exitReason = "LookupFailed") =>
            /\ ProtocolOf(sent, rooms_visited)
            /\ Queries(sent) = 2 * (rooms_visited + 1)
            /\ Moves(sent) = rooms_visited
            /\ Queries(sent) + Moves(sent) = Len(sent))
    /\ []((pc = "ended" /\ exitReason = "TransportFailed") =>
            /\ ProtocolOf(Front(sent), rooms_visited)
            /\ Last(sent) \in LowercaseTokens)
    /\ [][MoveStep =>
            /\ lastStep'.dir \in {"N", "S"}
            /\ sent' = sent \o <<IF lastStep'.dir = "N" THEN "n" ELSE "s",
                                 "look", "exits">>]_vars

\* an invocation has ended after two visits, the first along N and the
\* second along S, the exits read of the first one having failed
C34_Witness ==
    /\ NormalEnd
    /\ rooms_visited = 2
    /\ sent = <<"look", "exits", "n", "look", "exits", "s", "look", "exits">>
    /\ failures = 1

\* C35: every movement command is for a direction listed by the most recent
\* observation (the one made after the previous move), at every iteration of
\* the loop; stated for the invocations in which no read has failed.
C35_MovesAlongFreshListing ==
    [][(MoveStep /\ failures' = 0) =>
          lastStep'.dir \in lastObs.room.exits]_vars

\* the same, of the first move of an invocation alone
C35_FirstMoveListed ==
    [][(MoveStep /\ failures' = 0
          /\ rooms_visited = 0 /\ lastStep.kind = "none")
          => lastStep'.dir \in lastObs.room.exits]_vars

-----------------------------------------------------------------------------
(* The stack and the store across invocations *)

\* C36: whenever the loop looks up the last id of the stack, the dataset
\* holds a record with that id, also for an id restored from stack.json and
\* for the id of a pitch-black room; stated for the invocations in which no
\* read has failed.
C36_TopHasRecord ==
    (pc = "loop" /\ LoopCond /\ failures = 0)
        => Last(path_stack) \in DOMAIN room_data

\* the same for every id of the stack, of the root explorer alone
C36_RootStackHasRecords ==
    (variant = "root" /\ pc = "loop") =>
        \A i \in 1..Len(path_stack) : path_stack[i] \in DOMAIN room_data

\* the root explorer runs its loop over a restored stack that holds the id
\* of a pitch-black room below the top
C36_RootWitness ==
    /\ variant = "root" /\ pc = "loop" /\ LoopCond
    /\ resumeLog.persisted # <<>>
    /\ Len(path_stack) <= Len(resumeLog.persisted)
    /\ IsBlack(Last(path_stack))

\* every exit that has a target in `before` has the same target in `after`
LinksKept(before, after) ==
    \A id \in DOMAIN before : \A d \in Dirs :
        HasTarget(before[id], d) =>
            /\ id \in DOMAIN after
            /\ HasTarget(after[id], d)
            /\ after[id].exits[d] = before[id].exits[d]

\* C37: a recorded target is never changed or cleared: every step of the
\* loop and the saves after it keep the links of the dataset, every step
\* keeps the links of rooms.json, and the start of an invocation, which
\* loads the document and registers the observed room again, brings every
\* link of the document into the dataset.
C37_LinksStable ==
    /\ [][pc = "loop" => LinksKept(room_data, room_data')]_vars
    /\ [][LinksKept(roomsDoc.rooms, roomsDoc'.rooms)]_vars
    /\ [][(pc # "loop" /\ pc' = "loop")
            => LinksKept(roomsDoc.rooms, room_data')]_vars

\* a later invocation of the root explorer has walked into a room that the
\* document it loaded held with a linked exit, and has added a link of its
\* own
C37_Witness ==
    /\ variant = "root" /\ runs >= 2 /\ pc = "loop"
    /\ lastStep.kind = "move"
    /\ lastStep.seen \in DOMAIN docs0.rooms.rooms
    /\ Linked(docs0.rooms.rooms[lastStep.seen]) # {}
    /\ Linked(room_data[lastStep.seen])
          = Linked(docs0.rooms.rooms[lastStep.seen])
    /\ LinksKept(docs0.rooms.rooms, room_data)
    /\ ~LinksKept(room_data, docs0.rooms.rooms)

\* C38: an invocation that finds a persisted stack whose last id is the id
\* it observes enters the loop with that stack as it was persisted: the
\* resumed room is not pushed a second time.
C38_ResumeKeepsStack ==
    (ResumeChecked /\ failures = 0
       /\ resumeLog.persisted # <<>>
       /\ Last(resumeLog.persisted) = resumeLog.observed)
        => resumeLog.entering = resumeLog.persisted

\* what the code does instead: the observed id is pushed on top of the kept
\* stack, so the stack enters the loop one entry longer, its two last
\* entries equal
C38_ResumePushesAgain ==
    (ResumeChecked
       /\ resumeLog.persisted # <<>>
       /\ Last(resumeLog.persisted) = resumeLog.observed)
        => resumeLog.entering
              = Append(resumeLog.persisted, resumeLog.observed)

-----------------------------------------------------------------------------
(* The store: one instance, one document *)

\* C39: a construction of the store that returns an instance returns one
\* whose collection has been loaded; after a first construction that failed
\* on the missing document, a later one fails as well or loads.
C39_NeverHalfInitialised ==
    (daoCall.op = "new" /\ daoCall.result = "DAORoom") => daoInst = "ready"

\* the part of C39 that holds: once the collection is loaded, a further
\* construction hands out the same instance and reads nothing again
C39_LoadedOnce ==
    [][(daoInst = "ready" /\ daoCall'.op = "new") =>
          /\ daoCall'.result = "DAORoom"
          /\ dao_rooms' = dao_rooms
          /\ daoInst' = "ready"
          /\ daoDoc' = daoDoc]_vars

\* C40: a save never removes from rooms.json a record that is in it, unless
\* that record is the one delete_room was asked to delete; in particular the
\* black_ records the load leaves out of the collection stay in the
\* document through an insert or an update and its save.
C40_SaveKeepsRecords ==
    [][\A id \in DOMAIN daoDoc.rooms :
          \/ id \in DOMAIN daoDoc'.rooms
          \/ (daoCall'.op = "delete" /\ daoCall'.id = id)]_vars

\* the same, of the DAORoom of dao_room.py alone, which loads every record
C40_RootSaveKeepsRecords ==
    [][variant = "root" =>
        \A id \in DOMAIN daoDoc.rooms :
          \/ id \in DOMAIN daoDoc'.rooms
          \/ (daoCall'.op = "delete" /\ daoCall'.id = id)]_vars

\* the DAORoom of dao_room.py has loaded a document that holds a black_
\* record and has saved it again with a record added
C40_RootWitness ==
    /\ variant = "root" /\ daoInst = "ready"
    /\ daoCall.op = "add" /\ daoCall.result # "ValueError"
    /\ BlackId(1) \in DOMAIN daoCall.docBefore.rooms
    /\ BlackId(1) \in DOMAIN daoDoc.rooms
    /\ daoDoc # daoCall.docBefore

====
